---- MODULE Spec2Model ----
(***************************************************************************)
(* A model of the LSM-tree storage engine of Khighness/lsmtree.             *)
(*                                                                         *)
(* Files are sequences of bytes, so that the record codec, the byte         *)
(* offsets kept in the index files and the short-read behaviour of decode   *)
(* are computed the way the Go code computes them.  The directory is a      *)
(* function from file names to contents whose domain is the set of files    *)
(* that exist.  A []byte is a sequence of bytes; the nil slice is the       *)
(* empty sequence (Put rejects empty values and decode maps a zero-length   *)
(* value to nil, so no empty non-nil value ever exists).  An operator that   *)
(* needs an intermediate result several times takes it as a parameter of a  *)
(* second operator, named after the step of the code it continues.          *)
(***************************************************************************)
EXTENDS Integers, Sequences, FiniteSets, TLC

\* ------------------------------------------------------------------ bounds

\* Mutations (Put/Delete calls) per behaviour.
MaxOps == 3
\* Process kills per behaviour.
MaxCrashes == 1
\* Runs written and sparse key distances tried where the run-level functions
\* are driven on their own.
MaxRuns == 2
MaxSparseKeyDistance == 3
\* Records encoded onto one stream where the codec is driven on its own.
MaxRecords == 2

\* ------------------------------------------------------- program constants

MaxKeySize == 65535
MaxValueSize == 65535
defaultMemTableThreshold == 64000
defaultSparseKeyDistance == 128
defaultSsTableNumberThreshold == 10

\* -------------------------------------------------------------- byte strings

Min(a, b) == IF a < b THEN a ELSE b

\* The nil slice.
Nil == << >>

\* n zero bytes.
Zeros(n) == [i \in 1..n |-> 0]

\* n bytes of value c: the byte strings used at the size limits.
Fill(n, c) == SubSeq([i \in 1..n |-> c], 1, n)

\* s[from:to] of Go, 0-based, to exclusive.
Slice(s, from, to) == SubSeq(s, from + 1, to)

\* bytes.Compare(a, b): -1, 0 or 1, byte-wise lexicographic: decided by
\* the first byte that differs, by the lengths when one is a prefix of the other.
BytesCompare(a, b) ==
  LET n == Min(Len(a), Len(b))
  IN IF SubSeq(a, 1, n) = SubSeq(b, 1, n)
       THEN (IF Len(a) < Len(b) THEN -1 ELSE IF Len(a) > Len(b) THEN 1 ELSE 0)
       ELSE LET i == CHOOSE j \in 1..n :
                       a[j] # b[j] /\ \A l \in 1..(j - 1) : a[l] = b[l]
            IN IF a[i] < b[i] THEN -1 ELSE 1

\* ------------------------------------------------------------------- codec

\* A decoded integer too large for the model's integers: a length no file
\* of the model can satisfy.
Huge == 1073741824

\* The low four bytes of 0 <= x < 2^31, big-endian.
Low4(x) ==
  << (x \div 16777216) % 256, (x \div 65536) % 256, (x \div 256) % 256, x % 256 >>

\* encodeInt: uint64(x) as 8 bytes big-endian (two's complement below 0).
encodeInt(x) ==
  IF x >= 0
    THEN Zeros(4) \o Low4(x)
    ELSE LET p == Zeros(4) \o Low4(-x - 1) IN [i \in 1..8 |-> 255 - p[i]]

\* decodeInt: the int of 8 bytes big-endian.
decodeInt(buf) ==
  IF \E i \in 1..4 : buf[i] # 0 \/ buf[5] >= 64
    THEN Huge
    ELSE buf[5] * 16777216 + buf[6] * 65536 + buf[7] * 256 + buf[8]

\* encodeIntPair: two ints, 16 bytes.
encodeIntPair(x, y) == encodeInt(x) \o encodeInt(y)

\* encodeSegments with the entry length short of the 8 bytes of the key
\* length.
encodeSegmentsShort(key, value) ==
  << encodeInt(Len(key) + Len(value)), encodeInt(Len(key)), key, value >>

\* The four segments encode writes, one Write call each.
encodeSegments(key, value) ==
  << encodeInt(8 + Len(key) + Len(value)), encodeInt(Len(key)), key, value >>

\* encode: the bytes written for one record.
encode(key, value) ==
  encodeInt(8 + Len(key) + Len(value)) \o encodeInt(Len(key)) \o key \o value

\* decode failing with error e, the reader left at offset pos.
decodeFail(e, pos) == [key |-> Nil, value |-> Nil, err |-> e, pos |-> pos]

\* decode, the split of the entry: the key up to keyEnd, the value after it,
\* nil when nothing follows the key.
decodeSplit(encodedEntry, keyEnd, pos) ==
  IF keyEnd > Len(encodedEntry) THEN decodeFail("panic", pos)
  ELSE [key |-> Slice(encodedEntry, 8, keyEnd),
        value |-> IF keyEnd = Len(encodedEntry) THEN Nil
                  ELSE Slice(encodedEntry, keyEnd, Len(encodedEntry)),
        err |-> "nil", pos |-> pos]

\* decode, the second Read: entryLen bytes from offset pos of f.
decodeEntry(f, pos, entryLen) ==
  IF entryLen >= Huge THEN decodeFail("panic", pos)
  ELSE IF entryLen > 0 /\ Len(f) - pos = 0 THEN decodeFail("EOF", pos)
  ELSE IF Len(f) - pos < entryLen THEN decodeFail("corrupt", Len(f))
  ELSE IF entryLen < 8 THEN decodeFail("panic", pos + entryLen)
  ELSE decodeSplit(Slice(f, pos, pos + entryLen),
                   8 + decodeInt(Slice(f, pos, pos + 8)), pos + entryLen)

\* decode, the first Read: n of the 8 length bytes were there to read.
decodeLen(f, pos, n) ==
  decodeEntry(f, pos + n, decodeInt(Slice(f, pos, pos + n) \o Zeros(8 - n)))

\* decode of the reader positioned at byte offset pos of file f
\* (os.File.Read: as many bytes as remain, io.EOF only when none remain).
\* err is "nil", "EOF", "corrupt" (the error decode builds) or "panic".
decode(f, pos) ==
  IF Len(f) - pos <= 0 THEN decodeFail("EOF", pos)
  ELSE decodeLen(f, pos, Min(8, Len(f) - pos))

\* encodeKeyOffset: an index entry, the record framing with the 8-byte
\* offset as the value.
encodeKeyOffset(key, offset) == encode(key, encodeInt(offset))

\* --------------------------------------------------------------- directory

walFileName == "wal.db"
ssTableMetaFileName == "meta.db"
ssTableDataFileName == "data.db"
ssTableIndexFileName == "index.db"
ssTableSparseIndexFileName == "sparse.db"
mergePrefix == "merge"

\* strconv.Itoa(index) + "-"
Prefix(index) == ToString(index) \o "-"

Exists(d, name) == name \in DOMAIN d

\* os.OpenFile(name, O_CREATE|O_TRUNC): the file exists and is empty.
Truncate(d, name) == [n \in DOMAIN d \cup {name} |-> IF n = name THEN << >> ELSE d[n]]

\* One Write call at the end of an open file.
WriteAt(d, name, bytes) == [d EXCEPT ![name] = @ \o bytes]

\* os.Remove of an existing file.
Remove(d, name) == [n \in DOMAIN d \ {name} |-> d[n]]

\* os.Rename of an existing file, replacing the target.
Rename(d, old, new) ==
  [n \in (DOMAIN d \ {old}) \cup {new} |-> IF n = new THEN d[old] ELSE d[n]]

Last(s) == s[Len(s)]

\* One step of a handler: the call ("create": OpenFile with O_CREATE|O_TRUNC,
\* "write", "sync", "close", "remove", "rename" on a file, "put" and "clear"
\* on the memtable), what it is made on, and the directory after it.
Step(call, file, d) == [call |-> call, file |-> file, dir |-> d]

\* What a sequence of steps leaves: the directory, the error that ended it
\* ("nil": none) and the steps in the order of the code.
Steps(d, e, t) == [dir |-> d, err |-> e, trace |-> t]

\* The steps t, then the steps r.
Then(t, r) == [dir |-> r.dir, err |-> r.err, trace |-> t \o r.trace]

\* ---------------------------------------------------------------- memtable

\* newMemTable: an empty ordered map and size 0.
newMemTable == [data |-> << >>, b |-> 0]

MapPut(data, key, value) ==
  [k \in DOMAIN data \cup {key} |-> IF k = key THEN value ELSE data[k]]

\* memTable.put adding the key's and the value's length for a key it holds
\* already.
mtPutAddsAll(m, key, value) ==
  [data |-> MapPut(m.data, key, value), b |-> m.b + (Len(key) + Len(value))]

\* memTable.put
mtPut(m, key, value) ==
  IF key \in DOMAIN m.data
    THEN [data |-> MapPut(m.data, key, value),
          b |-> m.b + (-Len(m.data[key]) + Len(value))]
    ELSE [data |-> MapPut(m.data, key, value),
          b |-> m.b + (Len(key) + Len(value))]

\* memTable.delete
mtDelete(m, key) ==
  IF key \notin DOMAIN m.data
    THEN [data |-> MapPut(m.data, key, Nil), b |-> m.b + Len(key)]
    ELSE [data |-> MapPut(m.data, key, Nil), b |-> m.b - Len(m.data[key])]

\* memTable.get: (value, exists)
mtGet(m, key) ==
  IF key \in DOMAIN m.data THEN [value |-> m.data[key], exists |-> TRUE]
                           ELSE [value |-> Nil, exists |-> FALSE]

\* memTable.clear
mtClear(m) == [data |-> << >>, b |-> 0]

\* The least key of S in byte order.
MinKey(S) == CHOOSE x \in S : \A y \in S : BytesCompare(x, y) <= 0

\* The keys of S in ascending byte order: the order of the ordered map's iterator.
RECURSIVE SortKeys(_)
SortKeys(S) ==
  IF S = {} THEN << >> ELSE << MinKey(S) >> \o SortKeys(S \ {MinKey(S)})

\* The entries of map data in the order of the keys ks.
Entries(data, ks) == [i \in 1..Len(ks) |-> [key |-> ks[i], value |-> data[ks[i]]]]

\* memTable.iterator: the entries (key, value) in ascending key order,
\* deleted keys included with a nil value.
mtIterator(m) == Entries(m.data, SortKeys(DOMAIN m.data))

\* --------------------------------------------------------------------- WAL

\* The Write calls of segments s from the i-th on, each at the end of the
\* file.
RECURSIVE writeSegments(_, _, _, _)
writeSegments(d, name, s, i) ==
  IF i > Len(s) THEN << >>
  ELSE << Step("write", name, WriteAt(d, name, s[i])) >>
       \o writeSegments(WriteAt(d, name, s[i]), name, s, i + 1)

\* The steps t, then Sync on file name.
synced(t, name) == t \o << Step("sync", name, Last(t).dir) >>

\* appendToWAL: seek to the end, encode (four Write calls), Sync.
appendToWALTrace(d, key, value) ==
  synced(writeSegments(d, walFileName, encodeSegments(key, value), 1), walFileName)

\* clearWAL: close the file and reopen it with O_TRUNC.
clearWAL(d) == Truncate(d, walFileName)

\* The two steps of clearWAL.
clearWALTrace(d) ==
  << Step("close", walFileName, d), Step("create", walFileName, clearWAL(d)) >>

\* loadMemTable's loop from byte offset pos of the WAL f; r is what decode
\* returned there.
RECURSIVE loadLoop(_, _, _)
RECURSIVE loadStep(_, _, _)
\* loadStep replaying values only: a deletion in the WAL is passed over.
loadStepSkipsTombstones(f, m, r) ==
  IF r.err = "EOF" THEN [mt |-> m, err |-> "nil"]
  ELSE IF r.err # "nil" THEN [mt |-> newMemTable, err |-> r.err]
  ELSE IF r.value # Nil THEN loadLoop(f, r.pos, mtPut(m, r.key, r.value))
  ELSE loadLoop(f, r.pos, m)

loadStep(f, m, r) ==
  IF r.err = "EOF" THEN [mt |-> m, err |-> "nil"]
  ELSE IF r.err # "nil" THEN [mt |-> newMemTable, err |-> r.err]
  ELSE IF r.value # Nil THEN loadLoop(f, r.pos, mtPut(m, r.key, r.value))
  ELSE loadLoop(f, r.pos, mtDelete(m, r.key))

loadLoop(f, pos, m) == loadStep(f, m, decode(f, pos))

\* loadMemTable: replay the WAL from its start into a new memtable.
loadMemTable(f) == loadLoop(f, 0, newMemTable)

\* ---------------------------------------------------------------- metadata

\* updateSsTableMeta: ioutil.WriteFile opens with O_TRUNC, writes, closes.
updateSsTableMetaTrace(d, num, max) ==
  << Step("create", ssTableMetaFileName, Truncate(d, ssTableMetaFileName)),
     Step("write", ssTableMetaFileName,
          WriteAt(Truncate(d, ssTableMetaFileName), ssTableMetaFileName,
                  encodeIntPair(num, max))),
     Step("close", ssTableMetaFileName,
          WriteAt(Truncate(d, ssTableMetaFileName), ssTableMetaFileName,
                  encodeIntPair(num, max))) >>

\* decodeIntPair; it panics on fewer than 16 bytes.
decodeIntPair(data) ==
  IF Len(data) < 16 THEN [num |-> 0, max |-> 0, err |-> "panic"]
  ELSE [num |-> decodeInt(SubSeq(data, 1, 8)), max |-> decodeInt(SubSeq(data, 9, 16)),
        err |-> "nil"]

\* readSsTableMeta: (0, -1) when the file does not exist.
readSsTableMeta(d) ==
  IF ~Exists(d, ssTableMetaFileName) THEN [num |-> 0, max |-> -1, err |-> "nil"]
  ELSE decodeIntPair(d[ssTableMetaFileName])

\* ------------------------------------------------------------ sorted-run writer

\* The three files of a run, in the order the code handles them.
RunFiles(prefix) ==
  << prefix \o ssTableDataFileName, prefix \o ssTableIndexFileName,
     prefix \o ssTableSparseIndexFileName >>

\* newSsTableWriter: the three files created empty, one OpenFile each.
newSsTableWriterTrace(d, prefix) ==
  << Step("create", RunFiles(prefix)[1], Truncate(d, RunFiles(prefix)[1])),
     Step("create", RunFiles(prefix)[2],
          Truncate(Truncate(d, RunFiles(prefix)[1]), RunFiles(prefix)[2])),
     Step("create", RunFiles(prefix)[3],
          Truncate(Truncate(Truncate(d, RunFiles(prefix)[1]), RunFiles(prefix)[2]),
                   RunFiles(prefix)[3])) >>

\* The writer's counters after newSsTableWriter.
newSsTableWriter(prefix, sparseKeyDistance) ==
  [prefix |-> prefix, sparseKeyDistance |-> sparseKeyDistance,
   keyNum |-> 0, dataPos |-> 0, indexPos |-> 0]

\* isSparseKey taking the last key of every group of sparseKeyDistance keys.
isSparseKeyLast(keyNum, sparseKeyDistance) ==
  keyNum % sparseKeyDistance = sparseKeyDistance - 1

\* ssTableWriter.write's condition for an entry in the sparse index
\* (evaluated only for a distance other than 0).
isSparseKey(keyNum, sparseKeyDistance) == keyNum % sparseKeyDistance = 0

\* ssTableWriter.write: the record to the data file, (key, dataPos) to the
\* dense index, (key, indexPos) to the sparse index for a sparse key; the
\* modulus panics when the distance is 0.
ssTableWriterWrite(d, w, key, value) ==
  IF w.sparseKeyDistance = 0
    THEN [dir |-> WriteAt(WriteAt(d, RunFiles(w.prefix)[1], encode(key, value)),
                          RunFiles(w.prefix)[2], encodeKeyOffset(key, w.dataPos)),
          w |-> w, err |-> "panic"]
    ELSE [dir |-> [n \in DOMAIN d |->
                     IF n = RunFiles(w.prefix)[1] THEN d[n] \o encode(key, value)
                     ELSE IF n = RunFiles(w.prefix)[2]
                       THEN d[n] \o encodeKeyOffset(key, w.dataPos)
                     ELSE IF n = RunFiles(w.prefix)[3]
                             /\ isSparseKey(w.keyNum, w.sparseKeyDistance)
                       THEN d[n] \o encodeKeyOffset(key, w.indexPos)
                     ELSE d[n]],
          w |-> [w EXCEPT !.dataPos = @ + Len(encode(key, value)),
                          !.indexPos = @ + Len(encodeKeyOffset(key, w.dataPos)),
                          !.keyNum = @ + 1],
          err |-> "nil"]

\* ssTableWriter.sync: Sync on the data, index and sparse index file.
ssTableWriterSync(d, prefix) ==
  [i \in 1..3 |-> Step("sync", RunFiles(prefix)[i], d)]

\* ssTableWriter.close: Close on the data, index and sparse index file.
ssTableWriterClose(d, prefix) ==
  [i \in 1..3 |-> Step("close", RunFiles(prefix)[i], d)]

\* The writes of the entries from the i-th on; r is what write returned for
\* the i-th: one step for each call of ssTableWriter.write.
RECURSIVE writeEntries(_, _, _, _)
RECURSIVE writeNext(_, _, _)
writeNext(r, entries, i) ==
  IF r.err # "nil" THEN Steps(r.dir, r.err, << Step("write", r.w.prefix, r.dir) >>)
  ELSE Then(<< Step("write", r.w.prefix, r.dir) >>,
            writeEntries(r.dir, r.w, entries, i + 1))

writeEntries(d, w, entries, i) ==
  IF i > Len(entries) THEN Steps(d, "nil", << >>)
  ELSE writeNext(ssTableWriterWrite(d, w, entries[i].key, entries[i].value), entries, i)

\* createSsTable after its writes returned r: sync, then close.
createWritten(r, prefix) ==
  IF r.err # "nil" THEN r
  ELSE Steps(r.dir, "nil",
             r.trace \o ssTableWriterSync(r.dir, prefix) \o ssTableWriterClose(r.dir, prefix))

\* createSsTable: a writer for prefix "<index>-", every entry of the memtable
\* in iterator order, sync, close.
createSsTable(d, m, index, sparseKeyDistance) ==
  createWritten(
    Then(newSsTableWriterTrace(d, Prefix(index)),
         writeEntries(Last(newSsTableWriterTrace(d, Prefix(index))).dir,
                      newSsTableWriter(Prefix(index), sparseKeyDistance),
                      mtIterator(m), 1)),
    Prefix(index))

\* ------------------------------------------------------------- point lookup

\* What a search of an index returns.
Range(from, to, ok, e) == [from |-> from, to |-> to, ok |-> ok, err |-> e]
\* What searchInIndex returns, with the entries it decoded on the way: the
\* byte offset at which each starts, in the order of the scan.
Offset(offset, ok, e) == [offset |-> offset, ok |-> ok, err |-> e, scan |-> << >>]
\* The result x of the scan after the entry that decode returned as r.
Scanned(r, x) ==
  [x EXCEPT !.scan = << r.pos - (16 + Len(r.key) + Len(r.value)) >> \o @]
\* What a search for a value returns: (value, exists) and the error.
Found(value, ok, e) == [value |-> value, ok |-> ok, err |-> e]

\* searchInSparseIndex's loop from byte offset pos of the sparse index f; r
\* is what decode returned there, cmp the comparison of its key with the
\* key searched.
RECURSIVE sparseLoop(_, _, _, _)
RECURSIVE sparseStep(_, _, _, _)
sparseCompare(f, r, from, searchKey, offset, cmp) ==
  IF cmp = 0 THEN Range(offset, offset, TRUE, "nil")
  ELSE IF cmp < 0 THEN sparseLoop(f, r.pos, offset, searchKey)
  ELSE IF from = -1 THEN Range(0, 0, FALSE, "nil")
  ELSE Range(from, offset, TRUE, "nil")

\* sparseStep reporting no range at the end of the sparse index: a key past
\* the last sparse key is not searched for.
sparseStepEndsAbsent(f, r, from, searchKey) ==
  IF r.err = "EOF" THEN Range(0, 0, FALSE, "nil")
  ELSE IF r.err # "nil" THEN Range(0, 0, FALSE, r.err)
  ELSE IF Len(r.value) < 8 THEN Range(0, 0, FALSE, "panic")
  ELSE sparseCompare(f, r, from, searchKey, decodeInt(r.value),
                     BytesCompare(r.key, searchKey))

sparseStep(f, r, from, searchKey) ==
  IF r.err = "EOF" THEN Range(from, 0, from # -1, "nil")
  ELSE IF r.err # "nil" THEN Range(0, 0, FALSE, r.err)
  ELSE IF Len(r.value) < 8 THEN Range(0, 0, FALSE, "panic")
  ELSE sparseCompare(f, r, from, searchKey, decodeInt(r.value),
                     BytesCompare(r.key, searchKey))

sparseLoop(f, pos, from, searchKey) == sparseStep(f, decode(f, pos), from, searchKey)

\* searchInSparseIndex: the range of the dense index in which the key lies.
searchInSparseIndex(f, searchKey) == sparseLoop(f, 0, -1, searchKey)

\* searchInIndex's loop from byte offset pos of the dense index f; r is
\* what decode returned there.
RECURSIVE indexLoop(_, _, _, _, _)
RECURSIVE indexStep(_, _, _, _, _)
\* indexStep ending the scan only once the reader is past `to`.
indexStepPastTo(f, r, from, to, searchKey) ==
  IF r.err = "EOF" THEN Offset(0, FALSE, "nil")
  ELSE IF r.err # "nil" THEN Offset(0, FALSE, r.err)
  ELSE IF Len(r.value) < 8 THEN Offset(0, FALSE, "panic")
  ELSE IF r.key = searchKey THEN Scanned(r, Offset(decodeInt(r.value), TRUE, "nil"))
  ELSE IF to > from /\ r.pos > to THEN Scanned(r, Offset(0, FALSE, "nil"))
  ELSE Scanned(r, indexLoop(f, r.pos, from, to, searchKey))

indexStep(f, r, from, to, searchKey) ==
  IF r.err = "EOF" THEN Offset(0, FALSE, "nil")
  ELSE IF r.err # "nil" THEN Offset(0, FALSE, r.err)
  ELSE IF Len(r.value) < 8 THEN Offset(0, FALSE, "panic")
  ELSE IF r.key = searchKey THEN Scanned(r, Offset(decodeInt(r.value), TRUE, "nil"))
  ELSE IF to > from /\ r.pos >= to THEN Scanned(r, Offset(0, FALSE, "nil"))
  ELSE Scanned(r, indexLoop(f, r.pos, from, to, searchKey))

indexLoop(f, pos, from, to, searchKey) ==
  indexStep(f, decode(f, pos), from, to, searchKey)

\* searchInIndex: seek to from, scan for the key up to to (to EOF unless to > from).
searchInIndex(f, from, to, searchKey) == indexLoop(f, from, from, to, searchKey)

\* searchInDataFile: seek to offset, scan the records to EOF for the key; r
\* is what decode returned at the offset.
RECURSIVE searchInDataFile(_, _, _)
RECURSIVE dataStep(_, _, _)
dataStep(f, r, searchKey) ==
  IF r.err = "EOF" THEN Found(Nil, FALSE, "nil")
  ELSE IF r.err # "nil" THEN Found(Nil, FALSE, r.err)
  ELSE IF r.key = searchKey THEN Found(r.value, TRUE, "nil")
  ELSE searchInDataFile(f, r.pos, searchKey)

searchInDataFile(f, offset, searchKey) == dataStep(f, decode(f, offset), searchKey)

\* searchInSsTable, the data file: searched from the offset x that
\* searchInIndex returned, whose ok is not looked at.
searchData(dir, prefix, key, x) ==
  IF x.err # "nil" THEN Found(Nil, FALSE, x.err)
  ELSE IF ~Exists(dir, prefix \o ssTableDataFileName) THEN Found(Nil, FALSE, "open")
  ELSE searchInDataFile(dir[prefix \o ssTableDataFileName], x.offset, key)

\* searchInSsTable, the dense index: searched in the range s that
\* searchInSparseIndex returned.
searchIndex(dir, prefix, key, s) ==
  IF s.err # "nil" THEN Found(Nil, FALSE, s.err)
  ELSE IF ~s.ok THEN Found(Nil, FALSE, "nil")
  ELSE IF ~Exists(dir, prefix \o ssTableIndexFileName) THEN Found(Nil, FALSE, "open")
  ELSE searchData(dir, prefix, key,
                  searchInIndex(dir[prefix \o ssTableIndexFileName], s.from, s.to, key))

\* searchInSsTable: the key in the run of the given index: sparse index,
\* dense index, data file; a file that cannot be opened is an error.
searchInSsTable(dir, index, key) ==
  IF ~Exists(dir, Prefix(index) \o ssTableSparseIndexFileName)
    THEN Found(Nil, FALSE, "open")
    ELSE searchIndex(dir, Prefix(index), key,
           searchInSparseIndex(dir[Prefix(index) \o ssTableSparseIndexFileName], key))

\* The dense-index scan of searchInSsTable for the range s that
\* searchInSparseIndex returned: the entries searchInIndex decodes (none
\* when the search ends before the dense index is opened).
scanIndex(dir, prefix, key, s) ==
  IF s.err # "nil" \/ ~s.ok \/ ~Exists(dir, prefix \o ssTableIndexFileName) THEN << >>
  ELSE searchInIndex(dir[prefix \o ssTableIndexFileName], s.from, s.to, key).scan

\* The dense-index scan of searchInSsTable for the key in the run of the
\* given index.
scanInSsTable(dir, index, key) ==
  IF ~Exists(dir, Prefix(index) \o ssTableSparseIndexFileName) THEN << >>
  ELSE scanIndex(dir, Prefix(index), key,
         searchInSparseIndex(dir[Prefix(index) \o ssTableSparseIndexFileName], key))

\* searchInSsTables: every run from maxIndex down to 0, the first hit wins;
\* r is what searchInSsTable returned for the run maxIndex.
RECURSIVE searchInSsTables(_, _, _)
RECURSIVE searchNext(_, _, _, _)
searchNext(dir, maxIndex, key, r) ==
  IF r.err # "nil" THEN Found(Nil, FALSE, r.err)
  ELSE IF r.ok THEN r
  ELSE searchInSsTables(dir, maxIndex - 1, key)

searchInSsTables(dir, maxIndex, key) ==
  IF maxIndex < 0 THEN Found(Nil, FALSE, "nil")
  ELSE searchNext(dir, maxIndex, key, searchInSsTable(dir, maxIndex, key))

\* getFromMemTable handing on the map's own "exists".
getFromMemTableExists(value) == Found(value, TRUE, "nil")

\* The memtable branch of LSMTree.Get: found when the value is not nil.
getFromMemTable(value) == Found(value, value # Nil, "nil")

\* The run branch of LSMTree.Get: the run of index maxSsTableIndex only.
getFromSsTables(dir, maxIndex, key) == searchInSsTable(dir, maxIndex, key)

\* Get looking into the newest run before the memtable.
GetRunFirst(m, dir, maxIndex, key) ==
  IF getFromSsTables(dir, maxIndex, key).ok THEN getFromSsTables(dir, maxIndex, key)
  ELSE IF mtGet(m, key).exists THEN getFromMemTable(mtGet(m, key).value)
  ELSE getFromSsTables(dir, maxIndex, key)

\* LSMTree.Get on memtable m, directory dir and maxSsTableIndex.
Get(m, dir, maxIndex, key) ==
  IF mtGet(m, key).exists THEN getFromMemTable(mtGet(m, key).value)
  ELSE getFromSsTables(dir, maxIndex, key)

\* ------------------------------------------------------------------- merge

\* A dataFileIterator: the offset of its reader, its current record, whether
\* it is at its end.
Iterator(r, end) == [pos |-> r.pos, key |-> r.key, value |-> r.value, end |-> end]

\* newDataFileIterator: the first record is decoded at once; any error of
\* decode, io.EOF of an empty file included, fails the constructor.
newDataFileIterator(f) == [it |-> Iterator(decode(f, 0), FALSE), err |-> decode(f, 0).err]

\* dataFileIterator.hasNext
hasNext(it) == ~it.end

\* dataFileIterator.next, r being what decode returned for the record after
\* the current one: the current record is returned and the iterator moves
\* on, to its end once decode meets io.EOF.
nextDecoded(it, r) ==
  IF r.err # "nil" /\ r.err # "EOF"
    THEN [key |-> Nil, value |-> Nil, err |-> r.err, it |-> it]
    ELSE [key |-> it.key, value |-> it.value, err |-> "nil",
          it |-> Iterator(r, r.err = "EOF")]

\* dataFileIterator.next on the data file f.
next(it, f) == nextDecoded(it, decode(f, it.pos))

\* No current record (aKey == nil).
NoItem == [has |-> FALSE, key |-> Nil, value |-> Nil]

\* One side of merge after the top of a round: its current record cur, its
\* iterator and the error of next.
Side(cur, it, e) == [cur |-> cur, it |-> it, err |-> e]

\* The side after next returned n.
sideOf(n) == Side([has |-> TRUE, key |-> n.key, value |-> n.value], n.it, n.err)

\* The top of a round of merge for one side: a record is taken from the
\* iterator when there is no current one and the iterator has one.
fetch(it, cur, f) ==
  IF ~cur.has /\ hasNext(it) THEN sideOf(next(it, f)) ELSE Side(cur, it, "nil")

\* Which record one round of merge writes: "a", "b", or "both" (equal keys:
\* b's record is written and both are dropped).
mergePick(a, b) ==
  IF a.has /\ b.has
    THEN (IF BytesCompare(a.key, b.key) = 0 THEN "both"
          ELSE IF BytesCompare(a.key, b.key) > 0 THEN "b" ELSE "a")
    ELSE IF a.has THEN "a" ELSE "b"

\* merge: the loop over two iterators (files fa, fb) writing to writer w;
\* one step for each write call.  x and y are the two sides after
\* the top of the round, pick the record to write, r what write returned.
RECURSIVE merge(_, _, _, _, _, _, _, _)
RECURSIVE mergeWritten(_, _, _, _, _, _)
RECURSIVE mergeWrite(_, _, _, _, _, _, _)
RECURSIVE mergeRound(_, _, _, _, _, _)
RECURSIVE mergeFetchB(_, _, _, _, _, _, _)
mergeWritten(fa, fb, x, y, pick, r) ==
  IF r.err # "nil" THEN Steps(r.dir, r.err, << Step("write", r.w.prefix, r.dir) >>)
  ELSE Then(<< Step("write", r.w.prefix, r.dir) >>,
            merge(r.dir, fa, fb, x.it, y.it,
                  IF pick = "b" THEN x.cur ELSE NoItem,
                  IF pick = "a" THEN y.cur ELSE NoItem, r.w))

\* mergeWrite passing over a record with a nil value: deletions are dropped.
mergeWriteDropsTombstones(dir, fa, fb, w, x, y, pick) ==
  IF (IF pick = "a" THEN x.cur.value ELSE y.cur.value) = Nil
    THEN mergeWritten(fa, fb, x, y, pick, [dir |-> dir, w |-> w, err |-> "nil"])
    ELSE mergeWritten(fa, fb, x, y, pick,
                      ssTableWriterWrite(dir, w,
                                         IF pick = "a" THEN x.cur.key ELSE y.cur.key,
                                         IF pick = "a" THEN x.cur.value ELSE y.cur.value))

\* mergeWrite writing a's record where the keys are equal: the older wins.
mergeWriteOlder(dir, fa, fb, w, x, y, pick) ==
  mergeWritten(fa, fb, x, y, pick,
               ssTableWriterWrite(dir, w,
                                  IF pick = "b" THEN y.cur.key ELSE x.cur.key,
                                  IF pick = "b" THEN y.cur.value ELSE x.cur.value))

mergeWrite(dir, fa, fb, w, x, y, pick) ==
  mergeWritten(fa, fb, x, y, pick,
               ssTableWriterWrite(dir, w,
                                  IF pick = "a" THEN x.cur.key ELSE y.cur.key,
                                  IF pick = "a" THEN x.cur.value ELSE y.cur.value))

mergeRound(dir, fa, fb, w, x, y) ==
  IF y.err # "nil" THEN Steps(dir, y.err, << >>)
  ELSE IF ~x.cur.has /\ ~y.cur.has /\ ~hasNext(x.it) /\ ~hasNext(y.it)
    THEN Steps(dir, "nil", << >>)
  ELSE mergeWrite(dir, fa, fb, w, x, y, mergePick(x.cur, y.cur))

mergeFetchB(dir, fa, fb, bIt, b, w, x) ==
  IF x.err # "nil" THEN Steps(dir, x.err, << >>)
  ELSE mergeRound(dir, fa, fb, w, x, fetch(bIt, b, fb))

merge(dir, fa, fb, aIt, bIt, a, b, w) ==
  mergeFetchB(dir, fa, fb, bIt, b, w, fetch(aIt, a, fa))

\* Remove the files named in names from the i-th on, in order; a missing
\* file is an error that ends the loop.
RECURSIVE removeAll(_, _, _)
removeAll(dir, names, i) ==
  IF i > Len(names) THEN Steps(dir, "nil", << >>)
  ELSE IF ~Exists(dir, names[i]) THEN Steps(dir, "remove", << >>)
  ELSE Then(<< Step("remove", names[i], Remove(dir, names[i])) >>,
            removeAll(Remove(dir, names[i]), names, i + 1))

\* deleteSsTable: data, index and sparse index file of each prefix.
deleteSsTable(dir, aPrefix, bPrefix) ==
  removeAll(dir, RunFiles(aPrefix) \o RunFiles(bPrefix), 1)

\* renameSsTable's renames from the i-th file on.
RECURSIVE renameAll(_, _, _, _)
renameAll(dir, olds, news, i) ==
  IF i > Len(olds) THEN Steps(dir, "nil", << >>)
  ELSE IF ~Exists(dir, olds[i]) THEN Steps(dir, "rename", << >>)
  ELSE Then(<< Step("rename", olds[i], Rename(dir, olds[i], news[i])) >>,
            renameAll(Rename(dir, olds[i], news[i]), olds, news, i + 1))

\* renameSsTable: data, index and sparse index file.
renameSsTable(dir, oldPrefix, newPrefix) ==
  renameAll(dir, RunFiles(oldPrefix), RunFiles(newPrefix), 1)

\* mergeSsTables after deleteSsTable returned del: the output is renamed to
\* b's prefix.
mergeRename(del, b) ==
  IF del.err # "nil" THEN del
  ELSE Then(del.trace, renameSsTable(del.dir, mergePrefix, Prefix(b)))

\* mergeSsTables between merge and deleteSsTable: both iterators closed,
\* then writer.close.
mergeClosed(d, a, b) ==
  << Step("close", Prefix(a) \o ssTableDataFileName, d),
     Step("close", Prefix(b) \o ssTableDataFileName, d) >>
  \o ssTableWriterClose(d, mergePrefix)

\* mergeSsTables after merge returned m: iterators and writer closed, both
\* inputs deleted.
mergeDelete(m, a, b) ==
  IF m.err # "nil" THEN m
  ELSE Then(m.trace \o mergeClosed(m.dir, a, b),
            mergeRename(deleteSsTable(m.dir, Prefix(a), Prefix(b)), b))

\* mergeSsTables with both iterators open: a writer for "merge", then merge.
mergeOpened(dir, a, b, sparseKeyDistance, aIt, bIt) ==
  IF bIt.err # "nil" THEN Steps(dir, bIt.err, << >>)
  ELSE mergeDelete(
         Then(newSsTableWriterTrace(dir, mergePrefix),
              merge(Last(newSsTableWriterTrace(dir, mergePrefix)).dir,
                    dir[Prefix(a) \o ssTableDataFileName],
                    dir[Prefix(b) \o ssTableDataFileName],
                    aIt.it, bIt.it, NoItem, NoItem,
                    newSsTableWriter(mergePrefix, sparseKeyDistance))),
         a, b)

\* mergeSsTables with a's iterator open: b's iterator.
mergeOpenB(dir, a, b, sparseKeyDistance, aIt) ==
  IF aIt.err # "nil" THEN Steps(dir, aIt.err, << >>)
  ELSE IF ~Exists(dir, Prefix(b) \o ssTableDataFileName) THEN Steps(dir, "open", << >>)
  ELSE mergeOpened(dir, a, b, sparseKeyDistance, aIt,
                   newDataFileIterator(dir[Prefix(b) \o ssTableDataFileName]))

\* mergeSsTables: merge runs a and b into "merge", delete both, rename the
\* output to b's prefix.
mergeSsTables(dir, a, b, sparseKeyDistance) ==
  IF ~Exists(dir, Prefix(a) \o ssTableDataFileName) THEN Steps(dir, "open", << >>)
  ELSE mergeOpenB(dir, a, b, sparseKeyDistance,
                  newDataFileIterator(dir[Prefix(a) \o ssTableDataFileName]))

\* ------------------------------------------------------------------ engine

\* validatePut with the size limits themselves rejected.
validatePutInclusive(key, value) ==
  IF Len(key) = 0 THEN "ErrKeyRequired"
  ELSE IF Len(key) >= MaxKeySize THEN "ErrKeyTooLarge"
  ELSE IF Len(value) = 0 THEN "ErrValueRequired"
  ELSE IF Len(value) >= MaxValueSize THEN "ErrValueTooLarge"
  ELSE "nil"

\* The checks at the head of LSMTree.Put, in the order of the code.
validatePut(key, value) ==
  IF Len(key) = 0 THEN "ErrKeyRequired"
  ELSE IF Len(key) > MaxKeySize THEN "ErrKeyTooLarge"
  ELSE IF Len(value) = 0 THEN "ErrValueRequired"
  ELSE IF Len(value) > MaxValueSize THEN "ErrValueTooLarge"
  ELSE "nil"

\* needFlush flushing a memtable whose size has reached the threshold.
needFlushAtThreshold(m, memTableSizeThreshold) == m.b >= memTableSizeThreshold

\* Put's flush condition.
needFlush(m, memTableSizeThreshold) == m.b > memTableSizeThreshold

\* Put's compaction condition.
needMerge(ssTableNum, ssTableNumberThreshold) == ssTableNum >= ssTableNumberThreshold

\* The engine's fields and the directory after a step of Put, the error e
\* of the step and its steps.
Engine(d, m, num, max, e, t) ==
  [dir |-> d, mt |-> m, num |-> num, max |-> max, err |-> e, trace |-> t]

\* flushCleared without clearWAL: the flushed records stay in the WAL.
flushClearedKeepsWAL(t, u, m, newSsTableNum, newSsTableIndex) ==
  Engine(Last(u).dir, mtClear(m), newSsTableNum, newSsTableIndex, "nil",
         t \o u \o << Step("clear", "memtable", Last(u).dir) >>)

\* flushMemTable after updateSsTableMeta (its steps: u): the WAL cleared,
\* the memtable cleared, the counters updated.
flushCleared(t, u, m, newSsTableNum, newSsTableIndex) ==
  Engine(clearWAL(Last(u).dir), mtClear(m), newSsTableNum, newSsTableIndex, "nil",
         t \o u \o clearWALTrace(Last(u).dir)
           \o << Step("clear", "memtable", clearWAL(Last(u).dir)) >>)

\* flushCreated clearing the WAL before it updates the metadata.
flushCreatedClearsFirst(c, m, num, max) ==
  IF c.err # "nil" THEN Engine(c.dir, m, num, max, c.err, c.trace)
  ELSE Engine(Last(updateSsTableMetaTrace(clearWAL(c.dir), num + 1, max + 1)).dir,
              mtClear(m), num + 1, max + 1, "nil",
              c.trace \o clearWALTrace(c.dir)
                \o updateSsTableMetaTrace(clearWAL(c.dir), num + 1, max + 1)
                \o << Step("clear", "memtable",
                           Last(updateSsTableMetaTrace(clearWAL(c.dir),
                                                       num + 1, max + 1)).dir) >>)

\* flushMemTable after createSsTable returned c: the metadata updated.
flushCreated(c, m, num, max) ==
  IF c.err # "nil" THEN Engine(c.dir, m, num, max, c.err, c.trace)
  ELSE flushCleared(c.trace, updateSsTableMetaTrace(c.dir, num + 1, max + 1),
                    m, num + 1, max + 1)

\* flushMemTable: the memtable into run maxSsTableIndex + 1, the metadata,
\* the WAL cleared, the memtable cleared, the counters updated.
flushMemTable(dir, m, num, max, sparseKeyDistance) ==
  flushCreated(createSsTable(dir, m, max + 1, sparseKeyDistance), m, num, max)

\* compactMerged without the decrement of t.ssTableNum.
compactMergedKeepsCount(g, m, num, max) ==
  IF g.err # "nil" THEN Engine(g.dir, m, num, max, g.err, g.trace)
  ELSE Engine(Last(updateSsTableMetaTrace(g.dir, num - 1, max)).dir, m, num, max, "nil",
              g.trace \o updateSsTableMetaTrace(g.dir, num - 1, max))

\* The compaction of Put after mergeSsTables returned g: the metadata
\* updated, ssTableNum decremented.
compactMerged(g, m, num, max) ==
  IF g.err # "nil" THEN Engine(g.dir, m, num, max, g.err, g.trace)
  ELSE Engine(Last(updateSsTableMetaTrace(g.dir, num - 1, max)).dir, m, num - 1, max, "nil",
              g.trace \o updateSsTableMetaTrace(g.dir, num - 1, max))

\* The compaction of Put: the two oldest runs merged.
compact(dir, m, num, max, sparseKeyDistance) ==
  compactMerged(mergeSsTables(dir, max - num + 1, (max - num + 1) + 1, sparseKeyDistance),
                m, num, max)

\* What Put returns: the engine after it, and what it did on the way:
\* whether it flushed, whether it merged, the memtable it flushed.
putReturn(t1, m1, f, g, flushed, merged) ==
  [dir |-> g.dir, mt |-> g.mt, num |-> g.num, max |-> g.max, err |-> g.err,
   trace |-> t1 \o f.trace \o g.trace,
   flushed |-> flushed /\ f.err = "nil", merged |-> merged /\ g.err = "nil",
   flushedMt |-> IF flushed THEN m1 ELSE newMemTable]

\* Put after its flush step left the engine f: the compaction step.
putFlushed(t1, m1, c, f, flushed) ==
  putReturn(t1, m1, f,
            IF f.err = "nil" /\ needMerge(f.num, c.ssTableNumberThreshold)
              THEN compact(f.dir, f.mt, f.num, f.max, c.sparseKeyDistance)
              ELSE Engine(f.dir, f.mt, f.num, f.max, f.err, << >>),
            flushed, f.err = "nil" /\ needMerge(f.num, c.ssTableNumberThreshold))

\* Put after the record is in the WAL (steps t1) and in the memtable (m1):
\* the flush step.
putLogged(t1, m1, num, max, c) ==
  putFlushed(t1, m1, c,
             IF needFlush(m1, c.memTableSizeThreshold)
               THEN flushMemTable(Last(t1).dir, m1, num, max, c.sparseKeyDistance)
               ELSE Engine(Last(t1).dir, m1, num, max, "nil", << >>),
             needFlush(m1, c.memTableSizeThreshold))

\* The steps t of appendToWAL with the memtable put before them.
memTablePutFirst(t) == << Step("put", "memtable", Last(t).dir) >> \o t

\* The steps t of appendToWAL, then t.mt.put.
memTablePut(t) == t \o << Step("put", "memtable", Last(t).dir) >>

\* LSMTree.Put past its validation, on an engine whose WAL is open: the
\* engine's fields and the directory when Put returns, the error it returns,
\* and its steps.
Put(dir, m, num, max, c, key, value) ==
  putLogged(memTablePut(appendToWALTrace(dir, key, value)), mtPut(m, key, value),
            num, max, c)

\* Delete writing the memtable out as a run once the deletion is in it.
DeleteWritesRun(dir, m, key) ==
  [dir |-> createSsTable(Last(appendToWALTrace(dir, key, Nil)).dir,
                         mtPut(m, key, Nil), 0, 1).dir,
   mt |-> mtPut(m, key, Nil),
   err |-> "nil", trace |-> memTablePut(appendToWALTrace(dir, key, Nil))]

\* LSMTree.Delete on an engine whose WAL is open: a record with a nil value
\* appended to the WAL, then put into the memtable.
Delete(dir, m, key) ==
  [dir |-> Last(appendToWALTrace(dir, key, Nil)).dir, mt |-> mtPut(m, key, Nil),
   err |-> "nil", trace |-> memTablePut(appendToWALTrace(dir, key, Nil))]

\* Open with the WAL file d[walFileName] there: the memtable loaded from it
\* (l), the metadata read (meta).
openLoaded(d, l, meta) ==
  [dir |-> d, mt |-> l.mt, num |-> meta.num, max |-> meta.max,
   err |-> IF l.err # "nil" THEN l.err ELSE meta.err]

\* Open with the WAL opened or created.
openWAL(d) == openLoaded(d, loadMemTable(d[walFileName]), readSsTableMeta(d))

\* Open: the WAL opened or created, the memtable loaded from it, the
\* metadata read.
Open(dir) ==
  openWAL(IF Exists(dir, walFileName) THEN dir ELSE Truncate(dir, walFileName))

\* ------------------------------------------------------------ state machine

VARIABLES
  dir,              \* the directory dbDir: file name -> bytes
  status,           \* "open", "closed" (after Close), "down" (no process)
  mt,               \* LSMTree.mt
  ssTableNum,       \* LSMTree.ssTableNum
  maxSsTableIndex,  \* LSMTree.maxSsTableIndex
  cfg,              \* the options given to Open, and the inputs the caller draws from
  last,             \* the last call and what it returned
  acked,            \* key -> value of its last acknowledged mutation (Nil: Delete)
  ambig,            \* keys touched by a mutation that failed or was killed since
  plain,            \* every mutation so far was a successful Put of a new key
  clean,            \* no Put or Delete on the open engine has failed and no
                    \* process was killed so far
  ops,              \* mutations that reached the WAL
  crashes,          \* process kills
  flushes,          \* flushes completed
  merges            \* compactions completed

vars == << dir, status, mt, ssTableNum, maxSsTableIndex, cfg, last, acked, ambig,
           plain, clean, ops, crashes, flushes, merges >>

\* The executions explored: the options given to Open, the inputs the caller
\* draws from, whether the process may be killed and how many mutations the
\* caller makes.  In turn: each Put flushes and every second flush compacts;
\* each Put flushes and runs accumulate; flushes of several entries with
\* sparse ranges; a threshold of one run; compaction at every second flush
\* and flushes of two entries again, with process kills, over two keys; the
\* default options with inputs at the size limits (one mutation: a file
\* written there is 64 KiB of state).
Scenario(mem, runs, sparse, inputs, kills, budget) ==
  [memTableSizeThreshold |-> mem, ssTableNumberThreshold |-> runs,
   sparseKeyDistance |-> sparse, inputs |-> inputs, kills |-> kills,
   budget |-> budget]

Configs ==
  { Scenario(1, 2, 1, "three", FALSE, MaxOps),
    Scenario(1, 3, 1, "three", FALSE, MaxOps),
    Scenario(5, 3, 2, "three", FALSE, MaxOps),
    Scenario(3, 1, 1, "pair", FALSE, MaxOps),
    Scenario(1, 2, 1, "pair", TRUE, MaxOps),
    Scenario(3, 3, 2, "pair", TRUE, MaxOps),
    Scenario(defaultMemTableThreshold, defaultSsTableNumberThreshold,
             defaultSparseKeyDistance, "limits", FALSE, 1) }

\* The keys and values the caller passes.
Keys(c) ==
  IF c.inputs = "three" THEN { << 1 >>, << 1, 1 >>, << 2 >> }
  ELSE IF c.inputs = "pair" THEN { << 1 >>, << 2 >> }
  ELSE { Fill(MaxKeySize, 1) }
Values(c) ==
  IF c.inputs = "limits" THEN { << 7 >>, Fill(MaxValueSize, 7) }
  ELSE { << 7 >>, << 8, 9 >> }
\* Arguments Put rejects.
BadKeys(c) ==
  IF c.inputs = "limits" THEN { << >>, Fill(MaxKeySize + 1, 1) } ELSE { << >> }
BadValues(c) ==
  IF c.inputs = "limits" THEN { << >>, Fill(MaxValueSize + 1, 7) } ELSE { << >> }
\* The arguments of the calls made on a closed engine.
ProbeKey == << 1 >>
ProbeValue == << 7 >>
\* The argument pairs passed to Put: every key with every value, and pairs
\* with a bad argument: every combination at the size limits, one of each
\* kind otherwise.
PutInputs(c) ==
  IF c.inputs = "limits"
    THEN (Keys(c) \cup BadKeys(c)) \X (Values(c) \cup BadValues(c))
    ELSE (Keys(c) \X Values(c))
           \cup { << Nil, ProbeValue >>, << ProbeKey, Nil >>, << Nil, Nil >> }

NoCall == [op |-> "Open", key |-> Nil, value |-> Nil, ok |-> FALSE, err |-> "nil",
           flushed |-> FALSE, merged |-> FALSE, preMt |-> newMemTable,
           preNum |-> 0, preMax |-> -1, calls |-> << >>, scans |-> << >>]

\* The calls of the steps t, in order: what is called, and on what.
CallsOf(t) == [i \in 1..Len(t) |-> << t[i].call, t[i].file >>]

Call(op, key, value, ok, err) ==
  [NoCall EXCEPT !.op = op, !.key = key, !.value = value, !.ok = ok, !.err = err]

\* The engine's fields as Open returned them in r.
Opened(r) ==
  /\ dir = r.dir
  /\ mt = r.mt
  /\ ssTableNum = r.num
  /\ maxSsTableIndex = r.max

\* The state after Open on a new, empty directory.
Init ==
  /\ cfg \in Configs
  /\ Opened(Open(<< >>))
  /\ status = "open"
  /\ last = NoCall
  /\ acked = << >>
  /\ ambig = {}
  /\ plain = TRUE
  /\ clean = TRUE
  /\ ops = 0
  /\ crashes = 0
  /\ flushes = 0
  /\ merges = 0

\* The process is gone: the engine's fields with it.
Killed(d) ==
  /\ dir' = d
  /\ status' = "down"
  /\ mt' = newMemTable
  /\ ssTableNum' = 0
  /\ maxSsTableIndex' = -1

\* Put with arguments its validation rejects: only the error is returned.
PutRejected(key, value) ==
  /\ last' = Call("Put", key, value, FALSE, validatePut(key, value))
  /\ UNCHANGED << dir, status, mt, ssTableNum, maxSsTableIndex, cfg, acked, ambig,
                  plain, clean, ops, crashes, flushes, merges >>

\* Put or Delete after Close: the append to the closed WAL file fails.
MutateClosed(op, key, value) ==
  /\ status = "closed"
  /\ op = "Put" => validatePut(key, value) = "nil"
  /\ op = "Delete" => value = Nil
  /\ last' = Call(op, key, value, FALSE, "wal")
  /\ UNCHANGED << dir, status, mt, ssTableNum, maxSsTableIndex, cfg, acked, ambig,
                  plain, clean, ops, crashes, flushes, merges >>

\* Put(key, value) returned r (a panic ends the process).
PutReturned(key, value, r) ==
  /\ IF r.err = "panic"
       THEN Killed(r.dir)
       ELSE /\ dir' = r.dir
            /\ mt' = r.mt
            /\ ssTableNum' = r.num
            /\ maxSsTableIndex' = r.max
            /\ status' = status
  /\ last' = [op |-> "Put", key |-> key, value |-> value, ok |-> FALSE,
              err |-> r.err, flushed |-> r.flushed, merged |-> r.merged,
              preMt |-> r.flushedMt, preNum |-> ssTableNum,
              preMax |-> maxSsTableIndex, calls |-> CallsOf(r.trace),
              scans |-> << >>]
  /\ acked' = IF r.err = "nil" THEN MapPut(acked, key, value) ELSE acked
  /\ ambig' = IF r.err = "nil" THEN ambig \ {key} ELSE ambig \cup {key}
  /\ plain' = (plain /\ r.err = "nil" /\ key \notin DOMAIN acked)
  /\ clean' = (clean /\ r.err = "nil")
  /\ flushes' = IF r.flushed THEN flushes + 1 ELSE flushes
  /\ merges' = IF r.merged THEN merges + 1 ELSE merges

\* Put(key, value) past its validation, running to its return.
PutAccepted(key, value) ==
  /\ ops < cfg.budget
  /\ PutReturned(key, value, Put(dir, mt, ssTableNum, maxSsTableIndex, cfg, key, value))
  /\ ops' = ops + 1
  /\ UNCHANGED << cfg, crashes >>

\* Put(key, value) on the open engine.
PutCall(key, value) ==
  /\ status = "open"
  /\ IF validatePut(key, value) # "nil" THEN PutRejected(key, value)
                                        ELSE PutAccepted(key, value)

\* Delete(key) returned r.
DeleteReturned(key, r) ==
  /\ dir' = r.dir
  /\ mt' = r.mt
  /\ last' = [Call("Delete", key, Nil, FALSE, r.err) EXCEPT !.calls = CallsOf(r.trace)]

\* Delete(key) running to its return.
DeleteCall(key) ==
  /\ status = "open"
  /\ ops < cfg.budget
  /\ DeleteReturned(key, Delete(dir, mt, key))
  /\ acked' = MapPut(acked, key, Nil)
  /\ ambig' = ambig \ {key}
  /\ plain' = FALSE
  /\ ops' = ops + 1
  /\ UNCHANGED << status, ssTableNum, maxSsTableIndex, cfg, clean, crashes, flushes, merges >>

\* Get(key) returned r (a panic ends the process).
GetReturned(key, r) ==
  /\ last' = Call("Get", key, r.value, r.ok, r.err)
  /\ IF r.err = "panic"
       THEN Killed(dir)
       ELSE UNCHANGED << dir, status, mt, ssTableNum, maxSsTableIndex >>

\* Get(key): nothing changes but what the caller is handed.
GetCall(key) ==
  /\ status = "open"
  /\ GetReturned(key, Get(mt, dir, maxSsTableIndex, key))
  /\ UNCHANGED << cfg, acked, ambig, plain, clean, ops, crashes, flushes, merges >>

\* Close: the WAL file is closed; the engine's fields stay as they are.
CloseCall ==
  /\ status = "open"
  /\ status' = "closed"
  /\ last' = Call("Close", Nil, Nil, FALSE, "nil")
  /\ UNCHANGED << dir, mt, ssTableNum, maxSsTableIndex, cfg, acked, ambig, plain,
                  clean, ops, crashes, flushes, merges >>

\* Open returned r (an error or a panic: no engine).
OpenReturned(r) ==
  IF r.err = "nil"
    THEN /\ dir' = r.dir
         /\ status' = "open"
         /\ mt' = r.mt
         /\ ssTableNum' = r.num
         /\ maxSsTableIndex' = r.max
         /\ last' = Call("Open", Nil, Nil, TRUE, "nil")
    ELSE /\ Killed(r.dir)
         /\ last' = Call("Open", Nil, Nil, FALSE, r.err)

\* Open on the directory, after Close or after the process was killed.
OpenCall ==
  /\ status \in {"closed", "down"}
  /\ OpenReturned(Open(dir))
  /\ UNCHANGED << cfg, acked, ambig, plain, clean, ops, crashes, flushes, merges >>

\* The process is killed after any one of the steps t of a call with the
\* given key and value; m is the memtable the call flushes, if it does.
KilledIn(t, key, value, m) ==
  \E i \in 1..Len(t) :
    /\ Killed(t[i].dir)
    /\ last' = [Call("Crash", key, value, FALSE, "nil")
                  EXCEPT !.preMt = m, !.preNum = ssTableNum,
                         !.preMax = maxSsTableIndex,
                         !.calls = CallsOf(SubSeq(t, 1, i))]

\* The process is killed inside Put(key, value), after any one of its
\* steps.
CrashInPut(key, value) ==
  /\ status = "open"
  /\ ops < cfg.budget
  /\ cfg.kills
  /\ crashes < MaxCrashes
  /\ validatePut(key, value) = "nil"
  /\ KilledIn(Put(dir, mt, ssTableNum, maxSsTableIndex, cfg, key, value).trace,
              key, value,
              Put(dir, mt, ssTableNum, maxSsTableIndex, cfg, key, value).flushedMt)
  /\ ambig' = ambig \cup {key}
  /\ plain' = FALSE
  /\ clean' = FALSE
  /\ ops' = ops + 1
  /\ crashes' = crashes + 1
  /\ UNCHANGED << cfg, acked, flushes, merges >>

\* The process is killed inside Delete(key), after any one of its steps.
CrashInDelete(key) ==
  /\ status = "open"
  /\ ops < cfg.budget
  /\ cfg.kills
  /\ crashes < MaxCrashes
  /\ KilledIn(Delete(dir, mt, key).trace, key, Nil, newMemTable)
  /\ ambig' = ambig \cup {key}
  /\ plain' = FALSE
  /\ clean' = FALSE
  /\ ops' = ops + 1
  /\ crashes' = crashes + 1
  /\ UNCHANGED << cfg, acked, flushes, merges >>

\* The process is killed between two calls.
CrashIdle ==
  /\ status = "open"
  /\ cfg.kills
  /\ crashes < MaxCrashes
  /\ Killed(dir)
  /\ last' = Call("Crash", Nil, Nil, FALSE, "nil")
  /\ clean' = FALSE
  /\ crashes' = crashes + 1
  /\ UNCHANGED << cfg, acked, ambig, plain, ops, flushes, merges >>

Next ==
  \/ MutateClosed("Put", ProbeKey, ProbeValue)
  \/ MutateClosed("Delete", ProbeKey, Nil)
  \/ \E kv \in PutInputs(cfg) : PutCall(kv[1], kv[2])
  \/ \E k \in Keys(cfg) : DeleteCall(k)
  \/ \E k \in Keys(cfg) : GetCall(k)
  \/ CloseCall
  \/ OpenCall
  \/ \E k \in Keys(cfg), v \in Values(cfg) : CrashInPut(k, v)
  \/ \E k \in Keys(cfg) : CrashInDelete(k)
  \/ CrashIdle

Spec == Init /\ [][Next]_vars

\* ------------------------------------------- a sparse key distance of zero

\* The engine opened with SparseKeyDistance(0): each Put flushes; flushes of
\* several entries, with process kills.
ZeroConfigs ==
  { Scenario(1, 2, 0, "three", FALSE, MaxOps),
    Scenario(5, 3, 0, "pair", TRUE, MaxOps) }

\* The state after Open on a new, empty directory.
ZeroInit ==
  /\ cfg \in ZeroConfigs
  /\ Opened(Open(<< >>))
  /\ status = "open"
  /\ last = NoCall
  /\ acked = << >>
  /\ ambig = {}
  /\ plain = TRUE
  /\ clean = TRUE
  /\ ops = 0
  /\ crashes = 0
  /\ flushes = 0
  /\ merges = 0

ZeroSpec == ZeroInit /\ [][Next]_vars

\* ------------------------------------------------- sorted runs on their own

\* The run-level functions driven the way the package's tests drive them: a
\* memtable is filled, createSsTable writes it as the next run,
\* searchInSsTable looks keys up in a run, mergeSsTables merges the two
\* oldest runs.  Of the engine's options only sparseKeyDistance matters
\* here; status stays "open", acked is the newest entry of each key over the
\* runs written and ambig the keys written to more than one run.

\* The keys and values put into the memtable; a nil value is a deletion.
RunKeys == { << 1 >>, << 1, 1 >>, << 2 >> }
RunValues == { Nil, << 7 >>, << 8, 9 >> }

\* The keys searched: those of the runs, one below and one above them all.
SearchKeys == RunKeys \cup { << 0 >>, << 3 >> }

RunConfigs ==
  { Scenario(defaultMemTableThreshold, MaxRuns, n, "three", FALSE, 0) :
      n \in 1..MaxSparseKeyDistance }

\* Before any run is written.
RunInit ==
  /\ cfg \in RunConfigs
  /\ dir = << >>
  /\ status = "open"
  /\ mt = newMemTable
  /\ ssTableNum = 0
  /\ maxSsTableIndex = -1
  /\ last = NoCall
  /\ acked = << >>
  /\ ambig = {}
  /\ plain = TRUE
  /\ clean = TRUE
  /\ ops = 0
  /\ crashes = 0
  /\ flushes = 0
  /\ merges = 0

\* mt.put(key, value), as prepareMemTable fills the memtable.
RunPut(key, value) ==
  /\ maxSsTableIndex + 1 < MaxRuns
  /\ key \notin DOMAIN mt.data
  /\ mt' = mtPut(mt, key, value)
  /\ UNCHANGED << dir, status, ssTableNum, maxSsTableIndex, cfg, last, acked, ambig,
                  plain, clean, ops, crashes, flushes, merges >>

\* createSsTable returned r for the memtable as the run after the newest.
RunCreated(r) ==
  /\ dir' = r.dir
  /\ mt' = mtClear(mt)
  /\ ssTableNum' = ssTableNum + 1
  /\ maxSsTableIndex' = maxSsTableIndex + 1
  /\ last' = [Call("createSsTable", Nil, Nil, r.err = "nil", r.err)
                EXCEPT !.preMt = mt, !.preNum = ssTableNum, !.preMax = maxSsTableIndex]
  /\ acked' = [k \in DOMAIN acked \cup DOMAIN mt.data |->
                 IF k \in DOMAIN mt.data THEN mt.data[k] ELSE acked[k]]
  /\ ambig' = ambig \cup (DOMAIN acked \cap DOMAIN mt.data)
  /\ flushes' = flushes + 1
  /\ UNCHANGED << status, cfg, plain, clean, ops, crashes, merges >>

\* createSsTable on a memtable that holds entries.
RunCreate ==
  /\ maxSsTableIndex + 1 < MaxRuns
  /\ mt # newMemTable
  /\ RunCreated(createSsTable(dir, mt, maxSsTableIndex + 1, cfg.sparseKeyDistance))

\* The cases of a table-driven test of searchInSsTable: every run index,
\* one past the last included, with every key searched.
SearchCases == (0..MaxRuns) \X SearchKeys

\* searchInSsTable on every case of the table, between the writes of two
\* memtables; what it returned for each case is kept in last.value, the
\* dense-index entries it decoded for each case in last.scans.
RunSearch ==
  /\ mt = newMemTable
  /\ last.op # "searchInSsTable"
  /\ last' = [Call("searchInSsTable", Nil,
                   [c \in SearchCases |-> searchInSsTable(dir, c[1], c[2])],
                   TRUE, "nil")
                EXCEPT !.scans = [c \in SearchCases |-> scanInSsTable(dir, c[1], c[2])]]
  /\ UNCHANGED << dir, status, mt, ssTableNum, maxSsTableIndex, cfg, acked, ambig,
                  plain, clean, ops, crashes, flushes, merges >>

\* mergeSsTables returned r for the two oldest runs.
RunMerged(r) ==
  /\ dir' = r.dir
  /\ ssTableNum' = ssTableNum - 1
  /\ last' = [Call("mergeSsTables", Nil, Nil, r.err = "nil", r.err)
                EXCEPT !.preNum = ssTableNum, !.preMax = maxSsTableIndex]
  /\ merges' = merges + 1
  /\ UNCHANGED << status, mt, maxSsTableIndex, cfg, acked, ambig, plain, clean,
                  ops, crashes, flushes >>

\* mergeSsTables on the two oldest runs, as Put's compaction calls it.
RunMerge ==
  /\ ssTableNum >= 2
  /\ mt = newMemTable
  /\ RunMerged(mergeSsTables(dir, maxSsTableIndex - ssTableNum + 1,
                             (maxSsTableIndex - ssTableNum + 1) + 1,
                             cfg.sparseKeyDistance))

RunNext ==
  \/ \E k \in RunKeys, v \in RunValues : RunPut(k, v)
  \/ RunCreate
  \/ RunSearch
  \/ RunMerge

RunSpec == RunInit /\ [][RunNext]_vars

\* ------------------------------------------------------ the codec on its own

\* encode and decode driven on one stream, the WAL file: records are encoded
\* onto its end and it is decoded from its start to io.EOF, as loadMemTable
\* reads it.  acked is the sequence of the records encoded, last.value what
\* decode returned.

\* Keys of 1, 2 and MaxKeySize bytes; values of 0 (nil), 1, 2 and
\* MaxValueSize bytes.
CodecKeys == { << 1 >>, << 1, 2 >>, Fill(MaxKeySize, 1) }
CodecValues == { Nil, << 7 >>, << 8, 9 >>, Fill(MaxValueSize, 7) }

\* The calls of decode on file f from offset pos until one returns an
\* error: the entries returned, the error and the offset of the reader.
RECURSIVE decodeLoop(_, _, _)
decodeStep(f, r, entries) ==
  IF r.err # "nil" THEN [entries |-> entries, err |-> r.err, pos |-> r.pos]
  ELSE decodeLoop(f, r.pos, Append(entries, [key |-> r.key, value |-> r.value]))

decodeLoop(f, pos, entries) == decodeStep(f, decode(f, pos), entries)

\* An empty stream.
CodecInit ==
  /\ cfg = Scenario(defaultMemTableThreshold, defaultSsTableNumberThreshold,
                    defaultSparseKeyDistance, "limits", FALSE, MaxRecords)
  /\ dir = Truncate(<< >>, walFileName)
  /\ status = "open"
  /\ mt = newMemTable
  /\ ssTableNum = 0
  /\ maxSsTableIndex = -1
  /\ last = NoCall
  /\ acked = << >>
  /\ ambig = {}
  /\ plain = TRUE
  /\ clean = TRUE
  /\ ops = 0
  /\ crashes = 0
  /\ flushes = 0
  /\ merges = 0

\* encode(key, value, w) at the end of the stream.
CodecEncode(key, value) ==
  /\ ops < cfg.budget
  /\ dir' = Last(writeSegments(dir, walFileName, encodeSegments(key, value), 1)).dir
  /\ acked' = Append(acked, [key |-> key, value |-> value])
  /\ last' = Call("encode", key, value, TRUE, "nil")
  /\ ops' = ops + 1
  /\ UNCHANGED << status, mt, ssTableNum, maxSsTableIndex, cfg, ambig, plain, clean,
                  crashes, flushes, merges >>

\* decode from the start of the stream until it returns an error.
CodecDecoded(r) ==
  /\ last' = [Call("decode", Nil, r.entries, r.err = "EOF", r.err) EXCEPT !.preNum = r.pos]
  /\ UNCHANGED << dir, status, mt, ssTableNum, maxSsTableIndex, cfg, acked, ambig,
                  plain, clean, ops, crashes, flushes, merges >>

CodecDecode ==
  /\ last.op # "decode"
  /\ CodecDecoded(decodeLoop(dir[walFileName], 0, << >>))

CodecNext ==
  \/ \E k \in CodecKeys, v \in CodecValues : CodecEncode(k, v)
  \/ CodecDecode

CodecSpec == CodecInit /\ [][CodecNext]_vars

\* -------------------------------------------------------------- properties

\* What Get returns for key in the current state.
GetNow(key) == Get(mt, dir, maxSsTableIndex, key)

\* The records of file f from byte offset pos to the first one decode
\* does not return.
RECURSIVE Records(_, _)
Records(f, pos) ==
  IF decode(f, pos).err # "nil" THEN << >>
  ELSE << [key |-> decode(f, pos).key, value |-> decode(f, pos).value] >>
         \o Records(f, decode(f, pos).pos)

\* The indices of the runs the metadata counts.
RunIndices == (maxSsTableIndex - ssTableNum + 1)..maxSsTableIndex

\* The records of the data file of run i (none when there is no such file).
RunRecords(i) ==
  IF Exists(dir, Prefix(i) \o ssTableDataFileName)
    THEN Records(dir[Prefix(i) \o ssTableDataFileName], 0)
    ELSE << >>

\* Run i holds a record (value or tombstone) of key.
InRun(i, key) == \E j \in 1..Len(RunRecords(i)) : RunRecords(i)[j].key = key

\* Run i holds a value of key.
LiveInRun(i, key) ==
  \E j \in 1..Len(RunRecords(i)) :
    RunRecords(i)[j].key = key /\ RunRecords(i)[j].value # Nil

\* C1: a Get(k) issued directly after a successful Put(k, v) returns
\* (v, found = true), also when that Put flushed the memtable or compacted.
C1_ReadYourWrites ==
  (status = "open" /\ last.op = "Put" /\ last.err = "nil")
    => GetNow(last.key) = Found(last.value, TRUE, "nil")

\* A successful Put has just flushed the memtable and merged two runs, its
\* key is in no memtable any more, and Get returns the value it wrote.
C1_Witness ==
  /\ status = "open" /\ last.op = "Put" /\ last.err = "nil"
  /\ last.flushed /\ last.merged
  /\ last.key \notin DOMAIN mt.data
  /\ GetNow(last.key) = Found(last.value, TRUE, "nil")

\* C2: after successful Puts of distinct keys, and nothing else, every key
\* written is found by Get with the value written for it.
C2_EveryKeyReadable ==
  (status = "open" /\ plain /\ clean)
    => \A k \in DOMAIN acked : GetNow(k) = Found(acked[k], TRUE, "nil")

\* C3: a Get(k) issued directly after a successful Delete(k) returns
\* found = false without an error.
C3_DeleteThenGet ==
  (status = "open" /\ last.op = "Delete" /\ last.err = "nil")
    => (~GetNow(last.key).ok /\ GetNow(last.key).err = "nil")

\* Delete has just returned for a key that has a value in the newest run,
\* and Get does not find the key.
C3_Witness ==
  /\ status = "open" /\ last.op = "Delete" /\ last.err = "nil"
  /\ LiveInRun(maxSsTableIndex, last.key)
  /\ ~GetNow(last.key).ok

\* C4: a key whose last mutation is a successful Delete is not found by Get,
\* whatever Puts of other keys followed.
C4_DeletedStaysAbsent ==
  (status = "open" /\ clean)
    => \A k \in DOMAIN acked : acked[k] = Nil => ~GetNow(k).ok

\* C5: Get of a key that is in neither the memtable nor any run returns
\* found = false and no error.
C5_AbsentKey ==
  status = "open"
    => \A k \in Keys(cfg) :
         (k \notin DOMAIN mt.data /\ \A i \in RunIndices : ~InRun(i, k))
           => GetNow(k) = Found(Nil, FALSE, "nil")

\* What Get has to return for key k when its last acknowledged mutation
\* is acked[k].
Acknowledged(k, r) ==
  IF acked[k] # Nil THEN r = Found(acked[k], TRUE, "nil") ELSE (~r.ok /\ r.err = "nil")

\* C6: when the process was killed after a Put or Delete was acknowledged
\* and the directory is reopened, Open returns an engine and Get returns the
\* acknowledged value, or absence, for every key whose last mutation was
\* acknowledged.
C6_CrashDurability ==
  (crashes > 0 /\ last.op = "Open" /\ DOMAIN acked \ ambig # {})
    => /\ last.ok
       /\ \A k \in DOMAIN acked \ ambig : Acknowledged(k, GetNow(k))

\* C7: Close followed by Open, after successful Puts and Deletes only: the
\* memtable (entries and size), ssTableNum and maxSsTableIndex are those held
\* before Close, and every value of the memtable is returned by Get again.
C7_CloseOpenRoundTrip ==
  [][(status = "closed" /\ clean /\ last.op = "Close" /\ last'.op = "Open")
       => /\ status' = "open"
          /\ mt' = mt
          /\ ssTableNum' = ssTableNum
          /\ maxSsTableIndex' = maxSsTableIndex
          /\ \A k \in DOMAIN mt.data :
               mt.data[k] # Nil
                 => Get(mt', dir', maxSsTableIndex', k) = Found(mt.data[k], TRUE, "nil")]_vars

\* An engine reopened after Close, with a run on disk and a memtable,
\* replayed from the WAL, that holds a value.
C7_Witness ==
  /\ status = "open" /\ clean /\ last.op = "Open" /\ last.ok /\ ops > 0
  /\ ssTableNum > 0
  /\ \E k \in DOMAIN mt.data : mt.data[k] # Nil /\ GetNow(k).ok

\* The four errors of Put's validation.
ValidationErrors ==
  { "ErrKeyRequired", "ErrKeyTooLarge", "ErrValueRequired", "ErrValueTooLarge" }

\* C8: Put returns KeyRequired for an empty key, KeyTooLarge for a key of
\* more than 65535 bytes, ValueRequired for an empty value and ValueTooLarge
\* for a value of more than 65535 bytes (the key is looked at first), none of
\* them for lengths from 1 to 65535, and a rejected Put leaves the directory
\* (WAL, run files, metadata) and the engine's fields as they were.
C8_PutValidation ==
  [][(status = "open" /\ last'.op = "Put")
       => /\ Len(last'.key) = 0 => last'.err = "ErrKeyRequired"
          /\ Len(last'.key) > 65535 => last'.err = "ErrKeyTooLarge"
          /\ (Len(last'.key) \in 1..65535 /\ Len(last'.value) = 0)
               => last'.err = "ErrValueRequired"
          /\ (Len(last'.key) \in 1..65535 /\ Len(last'.value) > 65535)
               => last'.err = "ErrValueTooLarge"
          /\ (Len(last'.key) \in 1..65535 /\ Len(last'.value) \in 1..65535)
               => last'.err \notin ValidationErrors
          /\ last'.err \in ValidationErrors
               => UNCHANGED << dir, mt, ssTableNum, maxSsTableIndex, status >>]_vars

\* Put has just rejected a key of 65536 bytes, passed with a valid value, on
\* an engine that holds nothing.
C8_Witness ==
  /\ status = "open" /\ last.op = "Put" /\ last.err = "ErrKeyTooLarge"
  /\ Len(last.key) = 65536 /\ Len(last.value) = 1
  /\ mt = newMemTable /\ dir[walFileName] = << >>

\* The files of run i that exist.
RunFilesPresent(i) == { j \in 1..3 : Exists(dir, RunFiles(Prefix(i))[j]) }

\* C9: with a threshold of two runs, after the Put that completes the third
\* flush a compaction has run, the metadata is (2, 2) and the files of the
\* oldest run are gone.
C9_ThreeFlushes ==
  (status = "open" /\ clean /\ cfg.ssTableNumberThreshold = 2 /\ flushes = 3)
    => /\ merges >= 1
       /\ readSsTableMeta(dir) = [num |-> 2, max |-> 2, err |-> "nil"]
       /\ ssTableNum = 2 /\ maxSsTableIndex = 2
       /\ RunFilesPresent(0) = {}

\* The keys of the records rs, in their order.
KeysOf(rs) == [j \in 1..Len(rs) |-> rs[j].key]

\* C10: after a Put that flushed (and did not go on to compact): ssTableNum
\* and maxSsTableIndex are one more than before and are what the metadata
\* file holds ((1, 0) after the first flush of an empty store); the data file
\* of the new run holds exactly the entries of the flushed memtable,
\* tombstones included, in strictly ascending key order; the dense index has
\* one entry per record and the sparse index entries for some of them,
\* starting with the first; the WAL file and the memtable are empty.
C10_FlushPostcondition ==
  (status = "open" /\ last.op = "Put" /\ last.err = "nil" /\ last.flushed /\ ~last.merged)
    => /\ ssTableNum = last.preNum + 1
       /\ maxSsTableIndex = last.preMax + 1
       /\ readSsTableMeta(dir) = [num |-> ssTableNum, max |-> maxSsTableIndex, err |-> "nil"]
       /\ (last.preNum = 0 /\ last.preMax = -1)
            => dir[ssTableMetaFileName] = encodeIntPair(1, 0)
       /\ RunFilesPresent(maxSsTableIndex) = 1..3
       /\ Len(RunRecords(maxSsTableIndex)) = Cardinality(DOMAIN last.preMt.data)
       /\ \A j \in 1..Len(RunRecords(maxSsTableIndex)) :
            /\ RunRecords(maxSsTableIndex)[j].key \in DOMAIN last.preMt.data
            /\ RunRecords(maxSsTableIndex)[j].value
                 = last.preMt.data[RunRecords(maxSsTableIndex)[j].key]
            /\ j > 1 => BytesCompare(RunRecords(maxSsTableIndex)[j - 1].key,
                                     RunRecords(maxSsTableIndex)[j].key) < 0
       /\ KeysOf(Records(dir[Prefix(maxSsTableIndex) \o ssTableIndexFileName], 0))
            = KeysOf(RunRecords(maxSsTableIndex))
       /\ Len(Records(dir[Prefix(maxSsTableIndex) \o ssTableSparseIndexFileName], 0)) >= 1
       /\ \A j \in 1..Len(Records(dir[Prefix(maxSsTableIndex) \o ssTableSparseIndexFileName], 0)) :
            Records(dir[Prefix(maxSsTableIndex) \o ssTableSparseIndexFileName], 0)[j].key
              \in DOMAIN last.preMt.data
       /\ dir[walFileName] = << >>
       /\ mt = [data |-> << >>, b |-> 0]

\* A Put has just flushed a memtable of several entries, a tombstone among
\* them, into a run that is not the first, without compacting.
C10_Witness ==
  /\ status = "open" /\ last.op = "Put" /\ last.err = "nil"
  /\ last.flushed /\ ~last.merged
  /\ last.preNum >= 1
  /\ Cardinality(DOMAIN last.preMt.data) >= 2
  /\ \E k \in DOMAIN last.preMt.data : last.preMt.data[k] = Nil
  /\ Len(RunRecords(maxSsTableIndex)) >= 2
  /\ dir[walFileName] = << >>

\* ------------------------------------------------ properties of sorted runs

\* The offset at which decoding file f from pos stops.
RECURSIVE FrameEnd(_, _)
FrameEnd(f, pos) ==
  IF decode(f, pos).err # "nil" THEN pos ELSE FrameEnd(f, decode(f, pos).pos)

\* File f is a sequence of whole records and nothing else.
WellFramed(f) == FrameEnd(f, 0) = Len(f)

\* The records of file name of directory d (none when there is no such file).
RecordsIn(d, name) == IF Exists(d, name) THEN Records(d[name], 0) ELSE << >>

\* The records of the data file of run i of directory d.
DataIn(d, i) == RecordsIn(d, Prefix(i) \o ssTableDataFileName)

\* The keys of the records rs are in strictly ascending byte order.
Ascending(rs) ==
  \A j \in 1..(Len(rs) - 1) : BytesCompare(rs[j].key, rs[j + 1].key) < 0

\* The keys of the records rs.
KeySet(rs) == { rs[j].key : j \in 1..Len(rs) }

\* The value the records rs hold for key.
ValueIn(rs, key) == rs[CHOOSE j \in 1..Len(rs) : rs[j].key = key].value

\* The records rm are the newer-wins merge of the older records ra and the
\* newer records rb.
NewerWins(ra, rb, rm) ==
  /\ Ascending(rm)
  /\ KeySet(rm) = KeySet(ra) \cup KeySet(rb)
  /\ \A j \in 1..Len(rm) :
       rm[j].value = IF rm[j].key \in KeySet(rb) THEN ValueIn(rb, rm[j].key)
                                                  ELSE ValueIn(ra, rm[j].key)

\* The index of the oldest run.
OldestRun == maxSsTableIndex - ssTableNum + 1

\* C11: mergeSsTables on runs a and a+1, each with strictly ascending keys,
\* succeeds and leaves as run a+1 a well-framed data file whose keys are
\* the union of both key sets in strictly ascending order, each key with
\* the entry of run a+1 if that run holds it and of run a otherwise, nil
\* values (deletions) included.
C11_MergeNewerWins ==
  [][(last'.op = "mergeSsTables"
        /\ Ascending(DataIn(dir, OldestRun))
        /\ Ascending(DataIn(dir, OldestRun + 1)))
       => /\ last'.err = "nil"
          /\ WellFramed(dir'[Prefix(OldestRun + 1) \o ssTableDataFileName])
          /\ NewerWins(DataIn(dir, OldestRun), DataIn(dir, OldestRun + 1),
                       DataIn(dir', OldestRun + 1))]_vars

\* Two runs have just been merged: a key of both runs came out as a
\* deletion, another key of both came out with a value, and a third key was
\* in one run only.
C11_Witness ==
  /\ last.op = "mergeSsTables" /\ last.err = "nil"
  /\ KeySet(DataIn(dir, OldestRun)) = DOMAIN acked
  /\ \E k \in ambig : ValueIn(DataIn(dir, OldestRun), k) = Nil
  /\ \E k \in ambig : ValueIn(DataIn(dir, OldestRun), k) # Nil
  /\ DOMAIN acked \ ambig # {}

\* What searchInSsTable has to return for key in run index of the directory:
\* the stored value when the run's data file holds the key, absence when it
\* does not, an error when the run's files are not there.
SearchExpected(index, key, r) ==
  IF index \notin OldestRun..maxSsTableIndex THEN r.err # "nil"
  ELSE IF key \in KeySet(DataIn(dir, index))
    THEN r = Found(ValueIn(DataIn(dir, index), key), TRUE, "nil")
  ELSE r = Found(Nil, FALSE, "nil")

\* C12: searchInSsTable, on a run written by createSsTable or mergeSsTables
\* with a sparse key distance of 1 or more, returns (value, true) with the
\* stored value for a key of the run and (nil, false) without an error for
\* any other key, keys below the smallest and above the largest included;
\* for a run index whose files do not exist it returns an error.
C12_PointLookup ==
  last.op = "searchInSsTable"
    => \A c \in SearchCases : SearchExpected(c[1], c[2], last.value[c])

\* A search with sparse key distance 2 over two runs: the third key of a
\* run of three is found past the second sparse entry, a deleted key is
\* returned as stored, a key between, one below and one above the two keys
\* of the other run are absent, and a run that is not there is an error.
C12_Witness ==
  /\ last.op = "searchInSsTable" /\ cfg.sparseKeyDistance = 2
  /\ ssTableNum = 2
  /\ Len(DataIn(dir, 0)) = 3
  /\ last.value[<< 0, << 2 >> >>].ok /\ last.value[<< 0, << 2 >> >>].value # Nil
  /\ last.value[<< 0, << 1 >> >>] = Found(Nil, TRUE, "nil")
  /\ KeySet(DataIn(dir, 1)) = { << 1 >>, << 2 >> }
  /\ last.value[<< 1, << 1, 1 >> >>] = Found(Nil, FALSE, "nil")
  /\ last.value[<< 1, << 0 >> >>] = Found(Nil, FALSE, "nil")
  /\ last.value[<< 1, << 3 >> >>] = Found(Nil, FALSE, "nil")
  /\ last.value[<< 2, << 1 >> >>].err # "nil"

\* The byte offset at which the j-th of the records rs starts in a file that
\* holds them one after the other: two lengths of 8 bytes, key and value
\* each.
RECURSIVE OffsetOf(_, _)
OffsetOf(rs, j) ==
  IF j = 1 THEN 0
  ELSE OffsetOf(rs, j - 1) + 16 + Len(rs[j - 1].key) + Len(rs[j - 1].value)

\* ceil(r / n)
CeilDiv(r, n) == (r + n - 1) \div n

\* The entries ix are one per record of rs, in order: the record's key with
\* the offset at which the record starts.
DenseOver(ix, rs) ==
  /\ Len(ix) = Len(rs)
  /\ \A j \in 1..Len(ix) :
       /\ ix[j].key = rs[j].key
       /\ Len(ix[j].value) = 8
       /\ decodeInt(ix[j].value) = OffsetOf(rs, j)

\* The entries sp are the entries 0, n, 2n, ... of ix: each with the key of
\* that entry and the offset at which that entry starts.
SparseOver(sp, ix, n) ==
  /\ Len(sp) = CeilDiv(Len(ix), n)
  /\ \A m \in 1..Len(sp) :
       /\ sp[m].key = ix[(m - 1) * n + 1].key
       /\ Len(sp[m].value) = 8
       /\ decodeInt(sp[m].value) = OffsetOf(ix, (m - 1) * n + 1)

\* The three files of run i of the directory are well framed, the data file
\* in strictly ascending key order, the dense index over the data file and
\* the sparse index over the dense index.
RunStructure(i, n) ==
  /\ \A j \in 1..3 : Exists(dir, RunFiles(Prefix(i))[j])
                      /\ WellFramed(dir[RunFiles(Prefix(i))[j]])
  /\ Ascending(DataIn(dir, i))
  /\ DenseOver(RecordsIn(dir, RunFiles(Prefix(i))[2]), DataIn(dir, i))
  /\ SparseOver(RecordsIn(dir, RunFiles(Prefix(i))[3]),
                RecordsIn(dir, RunFiles(Prefix(i))[2]), n)

\* C13: every run the writer has written with a sparse key distance N >= 1
\* holds its r records in strictly ascending key order in the data file (the
\* entries of the memtable, for a run createSsTable has just written), r
\* entries in the dense index, entry i being key i with the offset at which
\* record i starts, and ceil(r / N) entries in the sparse index, the dense
\* entries 0, N, 2N, ... each with the offset of that dense entry.
C13_RunFileStructure ==
  /\ \A i \in OldestRun..maxSsTableIndex : RunStructure(i, cfg.sparseKeyDistance)
  /\ last.op = "createSsTable"
       => /\ last.err = "nil"
          /\ DataIn(dir, maxSsTableIndex) = mtIterator(last.preMt)

\* createSsTable has just written a memtable of three entries, a deletion
\* among them, with sparse key distance 2: the sparse index holds two
\* entries, the second at an offset past the first dense entries.
C13_Witness ==
  /\ last.op = "createSsTable" /\ last.err = "nil" /\ cfg.sparseKeyDistance = 2
  /\ Len(DataIn(dir, maxSsTableIndex)) = 3
  /\ \E j \in 1..3 : DataIn(dir, maxSsTableIndex)[j].value = Nil
  /\ Len(RecordsIn(dir, RunFiles(Prefix(maxSsTableIndex))[3])) = 2
  /\ decodeInt(RecordsIn(dir, RunFiles(Prefix(maxSsTableIndex))[3])[2].value) > 0

\* ------------------------------------------------- properties of the codec

\* The length field at the head of the j-th of the records rs in stream f.
FrameLength(f, rs, j) == decodeInt(SubSeq(f, OffsetOf(rs, j) + 1, OffsetOf(rs, j) + 8))

\* C14: for keys of 1 to 65535 bytes and values of 0 to 65535 bytes, the
\* records encoded onto a stream are decoded as the same records in the
\* same order, a value of no bytes as nil, up to io.EOF at the end of the
\* stream; each frame's length field is 8 + |k| + |v| and decode of a frame
\* leaves the reader at the start of the next.
C14_CodecRoundTrip ==
  /\ \A j \in 1..Len(acked) :
       /\ FrameLength(dir[walFileName], acked, j)
            = 8 + Len(acked[j].key) + Len(acked[j].value)
       /\ decode(dir[walFileName], OffsetOf(acked, j)).pos = OffsetOf(acked, j + 1)
  /\ last.op = "decode"
       => /\ last.value = acked
          /\ last.err = "EOF"
          /\ last.preNum = Len(dir[walFileName])

\* Two records have been encoded and decoded again: a key with no value,
\* decoded as nil, then a key of two bytes with a value of two bytes.
C14_Witness ==
  /\ last.op = "decode" /\ Len(acked) = 2
  /\ acked[1].value = Nil /\ last.value[1].value = Nil
  /\ Len(acked[2].key) = 2 /\ Len(acked[2].value) = 2
  /\ last.value[2] = acked[2]

\* ------------------------------------------------ properties of the ordering

\* The first of the calls cs that is the given call on the given file
\* (0: there is none).
FirstCall(cs, call, file) ==
  IF \E i \in 1..Len(cs) : cs[i] = << call, file >>
    THEN CHOOSE i \in 1..Len(cs) :
           cs[i] = << call, file >> /\ \A j \in 1..(i - 1) : cs[j] # << call, file >>
    ELSE 0

\* The last of the calls cs that is the given call on the given file (0:
\* there is none).
LastCall(cs, call, file) ==
  IF \E i \in 1..Len(cs) : cs[i] = << call, file >>
    THEN CHOOSE i \in 1..Len(cs) :
           cs[i] = << call, file >> /\ \A j \in (i + 1)..Len(cs) : cs[j] # << call, file >>
    ELSE 0

\* In the calls cs of a mutation the memtable is put to only after the four
\* writes of the record to the WAL and the Sync that follows them.
WalFirst(cs) ==
  \A p \in 1..Len(cs) :
    cs[p] = << "put", "memtable" >>
      => /\ p = 6
         /\ \A j \in 1..4 : cs[j] = << "write", walFileName >>
         /\ cs[5] = << "sync", walFileName >>

\* C15: in Put and in Delete the record is appended to the WAL and synced
\* before the memtable is put to, wherever the call ends; a Put or Delete
\* whose append to the WAL fails returns the error and leaves the memtable,
\* the directory (run files, metadata, WAL) and the counters as they were.
C15_WalFirst ==
  [][/\ last'.op \in { "Put", "Delete", "Crash" } => WalFirst(last'.calls)
     /\ (last'.op \in { "Put", "Delete" } /\ last'.err = "nil")
          => FirstCall(last'.calls, "put", "memtable") > 0
     /\ (last'.op \in { "Put", "Delete" } /\ last'.err = "wal")
          => /\ last'.calls = << >>
             /\ UNCHANGED << dir, mt, ssTableNum, maxSsTableIndex >>]_vars

\* Put has returned without flushing onto a WAL that held a record: its
\* record is at the end of the WAL and its value in the memtable.
C15_Witness ==
  /\ status = "open" /\ last.op = "Put" /\ last.err = "nil" /\ ~last.flushed
  /\ Len(dir[walFileName]) > Len(encode(last.key, last.value))
  /\ Slice(dir[walFileName],
           Len(dir[walFileName]) - Len(encode(last.key, last.value)),
           Len(dir[walFileName])) = encode(last.key, last.value)
  /\ mtGet(mt, last.key) = [value |-> last.value, exists |-> TRUE]

\* The data file of the run a flush writes, maxSsTableIndex having been max.
FlushedData(max) == RunFiles(Prefix(max + 1))[1]

\* The calls cs are of a Put that has begun to flush.
FlushBegun(cs, max) == FirstCall(cs, "create", FlushedData(max)) > 0

\* The calls cs are of a Put that has begun to compact.
CompactionBegun(cs) == FirstCall(cs, "create", RunFiles(mergePrefix)[1]) > 0

\* In the calls cs, whenever call `later` on file g was made, call
\* `earlier` on file f had been made, the last time before it.
Before(cs, earlier, f, later, g) ==
  FirstCall(cs, later, g) > 0
    => /\ LastCall(SubSeq(cs, 1, FirstCall(cs, later, g)), earlier, f) > 0
       /\ LastCall(SubSeq(cs, 1, FirstCall(cs, later, g)), earlier, f)
            < FirstCall(cs, later, g)

\* The order of the calls cs of a flush into the run files fs: each file
\* synced after the writes and closed after the sync, all before the
\* metadata file is opened; the metadata written and closed before the WAL
\* is closed and truncated; the memtable cleared after that.
FlushOrder(cs, prefix) ==
  /\ \A j \in 1..3 :
       /\ Before(cs, "write", prefix, "sync", RunFiles(prefix)[j])
       /\ Before(cs, "sync", RunFiles(prefix)[j], "close", RunFiles(prefix)[j])
       /\ Before(cs, "close", RunFiles(prefix)[j], "create", ssTableMetaFileName)
  /\ Before(cs, "write", ssTableMetaFileName, "close", ssTableMetaFileName)
  /\ Before(cs, "close", ssTableMetaFileName, "close", walFileName)
  /\ Before(cs, "close", walFileName, "create", walFileName)
  /\ Before(cs, "create", walFileName, "clear", "memtable")

\* The entry (key, value) is in the WAL file of the directory: at some
\* offset of the file decode returns the key with the value.  (Whether Open
\* replays the record is another matter: it does not when an earlier kill
\* left a part of a record before it.)
InWAL(key, value) ==
  /\ Exists(dir, walFileName)
  /\ \E pos \in 0..Len(dir[walFileName]) :
       /\ decode(dir[walFileName], pos).err = "nil"
       /\ decode(dir[walFileName], pos).key = key
       /\ decode(dir[walFileName], pos).value = value

\* The entry (key, value) is in a run of the range the metadata file of the
\* directory describes.
InPersistedRun(key, value, meta) ==
  /\ meta.err = "nil"
  /\ \E i \in (meta.max - meta.num + 1)..meta.max :
       \E j \in 1..Len(DataIn(dir, i)) :
         DataIn(dir, i)[j] = [key |-> key, value |-> value]

\* C16: a flush syncs and closes the files of the new run before it writes
\* the metadata, and writes the metadata before it truncates the WAL; when
\* the process is killed after any step of a flush, every entry of the
\* memtable being flushed is in the WAL or in a run within the range the
\* metadata file describes.
C16_FlushOrdering ==
  (last.op \in { "Put", "Crash" } /\ FlushBegun(last.calls, last.preMax))
    => /\ FlushOrder(last.calls, Prefix(last.preMax + 1))
       /\ (status = "down" /\ last.op = "Crash" /\ ~CompactionBegun(last.calls))
            => \A k \in DOMAIN last.preMt.data :
                 \/ InWAL(k, last.preMt.data[k])
                 \/ InPersistedRun(k, last.preMt.data[k], readSsTableMeta(dir))

\* The process was killed in the second flush just after the metadata file
\* was opened with O_TRUNC: the metadata file is empty, the new run's files
\* are written, and the two entries being flushed are still in the WAL.
C16_Witness ==
  /\ status = "down" /\ last.op = "Crash" /\ last.preMax = 0
  /\ FlushBegun(last.calls, last.preMax)
  /\ Last(last.calls) = << "create", ssTableMetaFileName >>
  /\ dir[ssTableMetaFileName] = << >>
  /\ Cardinality(DOMAIN last.preMt.data) = 2
  /\ \A k \in DOMAIN last.preMt.data : InWAL(k, last.preMt.data[k])
  /\ Len(DataIn(dir, 1)) = 2

\* The files of the two runs a compaction merges, the oldest run being a.
MergeInputs(a) ==
  { RunFiles(Prefix(a))[j] : j \in 1..3 } \cup { RunFiles(Prefix(a + 1))[j] : j \in 1..3 }

\* C17: in a compaction each file of the merge output is synced before any
\* file of the two input runs is removed, and every file of the input runs
\* is removed before a file of the merge output is renamed.
C17_CompactionOrdering ==
  (last.op \in { "Put", "Crash" } /\ CompactionBegun(last.calls))
    => \A f \in MergeInputs(last.preMax - last.preNum + 1) :
         \A j \in 1..3 :
           /\ Before(last.calls, "sync", RunFiles(mergePrefix)[j], "remove", f)
           /\ Before(last.calls, "remove", f, "rename", RunFiles(mergePrefix)[j])

\* ------------------------------------------------ properties of the run set

\* The run indices a behaviour can reach.
AllIndices == 0..(MaxOps + MaxCrashes + 1)

\* The indices of which a run file is in the directory.
IndicesOnDisk == { i \in AllIndices : RunFilesPresent(i) # {} }

\* 1 for TRUE, 0 for FALSE.
One(b) == IF b THEN 1 ELSE 0

\* C18: after Open of a new directory and after every Put, Delete or Get
\* that returned no error, in a behaviour without a process kill: the run
\* files in the directory are the three files of each index from
\* maxSsTableIndex - ssTableNum + 1 to maxSsTableIndex and no others, the
\* metadata file, if there is one, holds (ssTableNum, maxSsTableIndex), and
\* a Put that compacted left ssTableNum one below and maxSsTableIndex equal
\* to what they were after its flush.
C18_RunSetInvariant ==
  (status = "open" /\ crashes = 0 /\ last.err = "nil"
     /\ (last.op \in { "Put", "Delete", "Get" } \/ (last.op = "Open" /\ ops = 0)))
    => /\ IndicesOnDisk = RunIndices
       /\ \A i \in RunIndices : RunFilesPresent(i) = 1..3
       /\ ssTableNum >= 0 /\ maxSsTableIndex >= ssTableNum - 1
       /\ Exists(dir, ssTableMetaFileName)
            => readSsTableMeta(dir)
                 = [num |-> ssTableNum, max |-> maxSsTableIndex, err |-> "nil"]
       /\ (last.op = "Put" /\ last.merged)
            => /\ ssTableNum = (last.preNum + One(last.flushed)) - 1
               /\ maxSsTableIndex = last.preMax + One(last.flushed)

\* A Put has just flushed a third run and compacted the two oldest: runs 1
\* and 2 are in the directory, run 0 is gone, the metadata holds (2, 2).
C18_Witness ==
  /\ status = "open" /\ crashes = 0 /\ last.op = "Put" /\ last.err = "nil"
  /\ last.flushed /\ last.merged
  /\ ssTableNum = 2 /\ maxSsTableIndex = 2
  /\ IndicesOnDisk = { 1, 2 }
  /\ readSsTableMeta(dir) = [num |-> 2, max |-> 2, err |-> "nil"]

\* C19: when the process was killed and Open has returned an engine on the
\* directory, every index from maxSsTableIndex - ssTableNum + 1 to
\* maxSsTableIndex, as read from the metadata file, has its data, index and
\* sparse index file in the directory.
C19_CrashRunSet ==
  (status = "open" /\ crashes > 0 /\ last.op = "Open" /\ last.ok)
    => /\ readSsTableMeta(dir) = [num |-> ssTableNum, max |-> maxSsTableIndex, err |-> "nil"]
       /\ \A i \in RunIndices : RunFilesPresent(i) = 1..3

\* ----------------------------------------------- properties of the memtable

\* The sum of len(key) + len(value) over the keys S of the map data.
RECURSIVE SizeOver(_, _)
SizeOver(data, S) ==
  IF S = {} THEN 0
  ELSE Len(MinKey(S)) + Len(data[MinKey(S)]) + SizeOver(data, S \ {MinKey(S)})

\* C20: the size of the memtable is the sum of len(key) + len(value) over
\* the keys it holds, a deleted key counting with a value of length 0,
\* after every put, delete and clear and after the replay of the WAL by
\* loadMemTable: a key put several times counts once, with the length of
\* its last value.
C20_MemTableSize ==
  mt.b = SizeOver(mt.data, DOMAIN mt.data)

\* An engine reopened after three mutations of two keys without a flush:
\* the memtable replayed from the WAL holds a value and a deletion, and its
\* size is the two keys' lengths and the value's length.
C20_Witness ==
  /\ status = "open" /\ last.op = "Open" /\ last.ok
  /\ ops = 3 /\ flushes = 0 /\ crashes = 0
  /\ Cardinality(DOMAIN mt.data) = 2
  /\ \E k \in DOMAIN mt.data : mt.data[k] = Nil
  /\ \E k \in DOMAIN mt.data : Len(mt.data[k]) = 2
  /\ Len(Records(dir[walFileName], 0)) = 3
  /\ mt.b = SizeOver(mt.data, DOMAIN mt.data)

\* -------------------------------------------- properties of flush and delete

\* The size of the memtable m with (key, value) put into it: the sum of
\* len(key) + len(value) over its keys.
SizeWith(m, key, value) ==
  SizeOver(MapPut(m.data, key, value), DOMAIN m.data \cup {key})

\* C21: a Put that returns no error has flushed the memtable if and only if
\* the size of the memtable with the entry put into it is greater than
\* memTableSizeThreshold (a size equal to the threshold does not flush), and
\* the size of the memtable it leaves is at most the threshold.
C21_FlushTrigger ==
  [][(status = "open" /\ last'.op = "Put" /\ last'.err = "nil")
       => /\ last'.flushed
               <=> SizeWith(mt, last'.key, last'.value) > cfg.memTableSizeThreshold
          /\ last'.flushed => mt' = newMemTable
          /\ ~last'.flushed => mt'.b = SizeWith(mt, last'.key, last'.value)
          /\ mt'.b <= cfg.memTableSizeThreshold]_vars

\* A Put of a second key has returned without a flush and left the size of
\* the memtable equal to the threshold.
C21_Witness ==
  /\ status = "open" /\ last.op = "Put" /\ last.err = "nil" /\ ~last.flushed
  /\ Cardinality(DOMAIN mt.data) = 2
  /\ mt.b = cfg.memTableSizeThreshold
  /\ flushes = 0

\* C22: a Delete that returns no error appends one record with the key and
\* a value of no bytes to the WAL and puts the key with a nil value into the
\* memtable; ssTableNum, maxSsTableIndex, the metadata file and every run
\* file are as they were, no file is created or removed, whatever the size of
\* the memtable and the number of runs after it.
C22_DeleteFrame ==
  [][(status = "open" /\ last'.op = "Delete" /\ last'.err = "nil")
       => /\ DOMAIN dir' = DOMAIN dir
          /\ dir'[walFileName]
               = dir[walFileName] \o encodeInt(8 + Len(last'.key))
                                  \o encodeInt(Len(last'.key)) \o last'.key
          /\ \A n \in DOMAIN dir \ {walFileName} : dir'[n] = dir[n]
          /\ mt'.data = MapPut(mt.data, last'.key, Nil)
          /\ ssTableNum' = ssTableNum
          /\ maxSsTableIndex' = maxSsTableIndex
          /\ status' = "open"]_vars

\* A Delete has returned on an engine that holds ssTableNumberThreshold
\* runs, and has left a memtable of a size above memTableSizeThreshold.
C22_Witness ==
  /\ status = "open" /\ last.op = "Delete" /\ last.err = "nil"
  /\ mtGet(mt, last.key) = [value |-> Nil, exists |-> TRUE]
  /\ mt.b > cfg.memTableSizeThreshold
  /\ ssTableNum >= cfg.ssTableNumberThreshold
  /\ RunFilesPresent(maxSsTableIndex) = 1..3

\* --------------------------------- properties of a sparse key distance of 0

\* C23: with a sparse key distance of 0, a Put that begins a flush returns
\* no error, the engine stays open, and the sparse index of the run written
\* holds every key of its data file.
C23_ZeroDistance ==
  (cfg.sparseKeyDistance = 0 /\ last.op = "Put" /\ FlushBegun(last.calls, last.preMax))
    => /\ status = "open"
       /\ last.err = "nil"
       /\ last.flushed
       /\ KeysOf(RecordsIn(dir, RunFiles(Prefix(last.preMax + 1))[3]))
            = KeysOf(DataIn(dir, last.preMax + 1))

\* ------------------------------------------------ properties of the lookup

\* What a descent over the runs from index i down to index lowest returns
\* for key: the entry of the first run that holds the key, absence when
\* none does.
RECURSIVE Descent(_, _, _)
Descent(i, lowest, key) ==
  IF i < lowest THEN Found(Nil, FALSE, "nil")
  ELSE IF InRun(i, key) THEN Found(ValueIn(RunRecords(i), key), TRUE, "nil")
  ELSE Descent(i - 1, lowest, key)

\* C24: on an engine with at least one run, Get of a key that is not in the
\* memtable returns what a descent over the runs from maxSsTableIndex down
\* to maxSsTableIndex - ssTableNum + 1 finds first, so that the entry of a
\* newer run shadows that of an older one and an entry that only an older
\* run holds is found; no error comes from a run below that range.
C24_RunDescent ==
  (status = "open" /\ ssTableNum >= 1)
    => \A k \in Keys(cfg) \ DOMAIN mt.data :
         GetNow(k) = Descent(maxSsTableIndex, OldestRun, k)

\* ------------------------------------------- properties of truncated input

\* C25: decode returns io.EOF only at the end of a stream of whole records:
\* where the records of the WAL file stop short of the end of the file
\* (the file ends inside a record), decode there returns another error than
\* io.EOF, and Open, whose loadMemTable reads the file, returns no engine.
C25_TruncatedInput ==
  Exists(dir, walFileName)
    => /\ decode(dir[walFileName], FrameEnd(dir[walFileName], 0)).err = "EOF"
            => FrameEnd(dir[walFileName], 0) = Len(dir[walFileName])
       /\ (status = "open" /\ last.op = "Open" /\ last.ok)
            => WellFramed(dir[walFileName])

\* ------------------------------------------ properties of the sparse index

\* The greatest m for which the m-th of the sparse entries sp has a key not
\* above key (0: the key is below them all).
Floor(sp, key) ==
  IF \E m \in 1..Len(sp) : BytesCompare(sp[m].key, key) <= 0
    THEN CHOOSE m \in 1..Len(sp) :
           /\ BytesCompare(sp[m].key, key) <= 0
           /\ \A l \in (m + 1)..Len(sp) : BytesCompare(sp[l].key, key) > 0
    ELSE 0

\* The scan (offsets of dense entries, in order) is of at most n entries of
\* the dense index file ix, one after the other, all from the entry that the
\* m-th of the sparse entries sp points to up to the entry that the next
\* sparse entry points to, or to the end of the file.
ScanBounded(scan, sp, ix, m, n) ==
  /\ Len(scan) <= n
  /\ m = 0 => scan = << >>
  /\ \A j \in 1..Len(scan) :
       /\ decode(ix, scan[j]).err = "nil"
       /\ scan[j] >= decodeInt(sp[m].value)
       /\ scan[j] < (IF m < Len(sp) THEN decodeInt(sp[m + 1].value) ELSE Len(ix))
       /\ j > 1 => scan[j] = decode(ix, scan[j - 1]).pos

\* C26: for every run written with a sparse key distance N >= 1 and every
\* key searched, the dense-index scan of the lookup decodes at most N
\* entries of the dense index, all of them between the sparse entry with
\* the greatest key not above the key searched and the next sparse entry
\* (the end of the file after the last), and none when the key is below
\* every sparse entry.
C26_ScanBounded ==
  (last.op = "searchInSsTable" /\ cfg.sparseKeyDistance >= 1)
    => \A c \in SearchCases :
         c[1] \in OldestRun..maxSsTableIndex
           => ScanBounded(last.scans[c],
                          RecordsIn(dir, RunFiles(Prefix(c[1]))[3]),
                          dir[RunFiles(Prefix(c[1]))[2]],
                          Floor(RecordsIn(dir, RunFiles(Prefix(c[1]))[3]), c[2]),
                          cfg.sparseKeyDistance)

\* A search with sparse key distance 2 in a run of three records and two
\* sparse entries: the second key is found after a scan of two dense
\* entries, a key above all after a scan of the last entry only, a key
\* below all without a scan.
C26_Witness ==
  /\ last.op = "searchInSsTable" /\ cfg.sparseKeyDistance = 2
  /\ maxSsTableIndex = 0 /\ Len(DataIn(dir, 0)) = 3
  /\ Len(RecordsIn(dir, RunFiles(Prefix(0))[3])) = 2
  /\ last.value[<< 0, << 1, 1 >> >>].ok
  /\ Len(last.scans[<< 0, << 1, 1 >> >>]) = 2
  /\ Len(last.scans[<< 0, << 3 >> >>]) = 1
  /\ last.scans[<< 0, << 3 >> >>][1] > 0
  /\ last.scans[<< 0, << 0 >> >>] = << >>

\* ---------------------------------------------- properties of what is read

\* C27: in every state, for every key whose latest Put or Delete has
\* returned without an error: when Get returns a value for the key, the
\* latest of those mutations is a Put and the value is the one it wrote;
\* Get returns no value that a later Put has overwritten or a later Delete
\* has deleted, whatever was flushed, compacted, closed and reopened since.
C27_NoStaleRead ==
  status = "open"
    => \A k \in Keys(cfg) \ ambig :
         (GetNow(k).ok /\ GetNow(k).value # Nil)
           => /\ k \in DOMAIN acked
              /\ acked[k] # Nil
              /\ GetNow(k).value = acked[k]

\* Get has just returned the value of the latest Put of a key of which an
\* older run still holds the value of an earlier Put.
C27_Witness ==
  /\ status = "open" /\ last.op = "Get" /\ last.ok /\ last.value # Nil
  /\ last.key \in DOMAIN acked \ ambig
  /\ last.value = acked[last.key]
  /\ \E i \in RunIndices :
       /\ LiveInRun(i, last.key)
       /\ ValueIn(RunRecords(i), last.key) # last.value

\* ------------------------------------------------ properties of compaction

\* C28: whenever a Put goes on to compact (ssTableNum, after its flush if it
\* flushed, has reached ssTableNumberThreshold), there are at least two
\* runs, the merge of the two oldest succeeds and the Put returns no error.
C28_CompactionInputs ==
  (status = "open" /\ last.op = "Put"
     /\ last.err \notin ValidationErrors \cup { "wal" }
     /\ needMerge(last.preNum + One(last.flushed), cfg.ssTableNumberThreshold))
    => /\ last.preNum + One(last.flushed) >= 2
       /\ last.err = "nil"
       /\ last.merged

====
